---- MODULE Spec2Model ----
(***************************************************************************)
(* State-machine model of the redis-cache command engine: the shared       *)
(* keyspace (kv_store), the wait registry (waiting_room) with its mpsc     *)
(* endpoints, and the list / stream command handlers run by concurrent     *)
(* connection tasks.  One action is one lock-protected span of a handler.  *)
(***************************************************************************)
EXTENDS Integers, Sequences, FiniteSets, TLC

\* ------------------------------------------------------------------ bounds
MaxElem == 3        \* list elements supplied over a run (each one fresh)
MaxPush == 2        \* elements supplied by one RPUSH/LPUSH
MaxEp   == 3        \* mpsc channels created over a run of list commands
MaxXreadEp == 2     \* mpsc channels created over a run of stream commands
U64Max  == 1        \* scaled-down u64::MAX (seq part of a stream id)
I64Max  == 3        \* scaled-down i64::MAX (the integer INCR parses)
MaxClock == 2       \* instants the monotonic clock runs through
MaxQueue == 2       \* commands queued in one transaction
MaxCount == 2       \* largest count argument of LPOP/RPOP
MaxIndex == 2       \* largest magnitude of an LRANGE index

ChanCap == 1        \* mpsc::channel(1)

\* ms parts a client or the wall clock supplies: 0 (special-cased by XADD) and
\* a non-zero value
MsVals == {0, 1}
ClockVals == MsVals \ {0}

Conns == {"c1", "c2", "c3"}
Keys  == {"k", "s"}
EpIds == 1..(IF MaxEp > MaxXreadEp THEN MaxEp ELSE MaxXreadEp)

\* ------------------------------------------------------------------ state
VARIABLES
  kv,        \* kv_store: key -> RedisValue (tag "none" = key absent)
  poisoned,  \* the kv_store mutex was poisoned by a panicking handler
  room,      \* waiting_room: key -> queue of Sender endpoints
  chBuf,     \* per channel: buffered messages (at most ChanCap)
  rxAlive,   \* per channel: the Receiver has not been dropped
  nextEp,    \* next channel to be created by init_waiting_room
  nextElem,  \* next fresh list element a client supplies
  pc,        \* per connection: position of its handler
  loc,       \* per connection: the locals of the running handler
  reply,     \* what the last step wrote to a socket: [conn, r]
  clock,     \* the monotonic clock (Instant::now())
  command_queue,  \* per connection: None or Some(queued argument vectors)
  exec       \* per connection: the locals of a running process_exec

vars == <<kv, poisoned, room, chBuf, rxAlive, nextEp, nextElem, pc, loc, reply,
          clock, command_queue, exec>>

\* --------------------------------------------------------------- values
\* Text (Rust String): a list element, a stream id, the decimal text of an
\* integer, or text that does not parse as an integer.
Elem(n)  == <<0, n, 0>>
IdMsg(id) == <<1, id[1], id[2]>>
NumStr(n) == <<2, n, 0>>
Text(n)   == <<3, n, 0>>

\* expires_at = None
NoExpiry == -1

\* RedisValue: data (tag + payload) and expires_at
NoValue == [tag |-> "none", list |-> <<>>, stream |-> <<>>, str |-> Text(0),
            exp |-> NoExpiry]
EmptyList == [NoValue EXCEPT !.tag = "list"]
EmptyStream == [NoValue EXCEPT !.tag = "stream"]
StringValue(v, expires_at) ==
  [NoValue EXCEPT !.tag = "string", !.str = v, !.exp = expires_at]

\* Replies (encoder.rs); "none" = nothing written (handler Err, match_result)
Reply(t, n, key, vals, streams) ==
  [t |-> t, n |-> n, key |-> key, vals |-> vals, streams |-> streams,
   parts |-> <<>>]
RNothing      == Reply("nothing", 0, "", <<>>, <<>>)
RInt(n)       == Reply("int", n, "", <<>>, <<>>)
RNullBulk     == Reply("nullbulk", 0, "", <<>>, <<>>)
RNullArr      == Reply("nullarr", 0, "", <<>>, <<>>)
RBulk(v)      == Reply("bulk", 0, "", <<v>>, <<>>)
RArr(vals)    == Reply("arr", 0, "", vals, <<>>)
RKeyVal(k, v) == Reply("arr", 0, k, <<v>>, <<>>)
RSimple(s)    == Reply("simple", 0, s, <<>>, <<>>)
RErr(s)       == Reply("err", 0, s, <<>>, <<>>)
RStreams(ss)  == Reply("xread", 0, "", <<>>, ss)
\* encode_raw_array: the header counts the parts, the parts follow as they are
RRaw(parts)   == [Reply("raw", Len(parts), "", <<>>, <<>>) EXCEPT !.parts = parts]

NoLoc == [cmd |-> "", keys |-> <<>>, ids |-> <<>>, block |-> "none", ep |-> 0]

RECURSIVE Reverse(_)
Reverse(s) == IF s = <<>> THEN <<>> ELSE Append(Reverse(Tail(s)), Head(s))

\* ------------------------------------------------------------ mpsc channel
\* Sender::is_closed: true once the Receiver was dropped.
IsClosed(tx) == ~rxAlive[tx]

\* Sender::try_send succeeds iff the receiver is alive and a slot is free.
TrySendOk(bufs, tx) == rxAlive[tx] /\ Len(bufs[tx]) < ChanCap

\* ------------------------------------------------------ transaction state
\* Option<VecDeque<Vec<String>>>
None == [some |-> FALSE, q |-> <<>>]
Some(q) == [some |-> TRUE, q |-> q]

\* process_exec's locals: the queue it took and the responses collected
NoExec == [on |-> FALSE, queue |-> <<>>, responses |-> <<>>]

\* ------------------------------------------------------------------- init
Init ==
  /\ kv = [k \in Keys |-> NoValue]
  /\ poisoned = FALSE
  /\ room = [k \in Keys |-> <<>>]
  /\ chBuf = [e \in EpIds |-> <<>>]
  /\ rxAlive = [e \in EpIds |-> FALSE]
  /\ nextEp = 1
  /\ nextElem = 1
  /\ pc = [c \in Conns |-> "idle"]
  /\ loc = [c \in Conns |-> NoLoc]
  /\ reply = [conn |-> "", r |-> Reply("nothing", 0, "", <<>>, <<>>)]
  /\ clock = 0
  /\ command_queue = [c \in Conns |-> None]
  /\ exec = [c \in Conns |-> NoExec]

\* A handler can take the kv_store lock: lock().unwrap() panics once poisoned
CanLockKv == ~poisoned

\* a step inside a handler: nothing is written to any socket and the caller
\* (run_command or process_exec) is not resumed
NoReply == [conn |-> "", r |-> RNothing]
Silent == reply' = NoReply /\ exec' = exec

\* The handler returns: its locals (and with them its Receiver) are dropped.
\* Called by run_command, the bytes are written to the socket; called by the
\* loop of process_exec, they are pushed to responses and the loop goes on to
\* the next queued command, or ends and the raw array is written.
Return(c, r) ==
  /\ pc' = [pc EXCEPT ![c] = "idle"]
  /\ loc' = [loc EXCEPT ![c] = NoLoc]
  /\ IF exec[c].on
     THEN LET responses == Append(exec[c].responses, r)
              rest == Tail(exec[c].queue)
          IN IF rest = <<>>
             THEN /\ exec' = [exec EXCEPT ![c] = NoExec]
                  /\ reply' = [conn |-> c, r |-> RRaw(responses)]
             ELSE /\ exec' = [exec EXCEPT ![c] = [on |-> TRUE, queue |-> rest,
                                                  responses |-> responses]]
                  /\ reply' = NoReply
     ELSE /\ reply' = [conn |-> c, r |-> r]
          /\ exec' = exec

\* ------------------------------------------------------------ process_push
\* The hand-off loop: one element is taken per queued endpoint, the endpoint
\* is popped whether or not try_send accepted the element.
RECURSIVE Drain(_, _, _)
Drain(queue, elems, bufs) ==
  IF queue = <<>> \/ elems = <<>>
  THEN [queue |-> queue, rest |-> elems, bufs |-> bufs]
  ELSE LET tx == Head(queue)
           next_val == Head(elems)
       IN Drain(Tail(queue), Tail(elems),
                IF TrySendOk(bufs, tx)
                THEN [bufs EXCEPT ![tx] = Append(@, Elem(next_val))]
                ELSE bufs)

Leftovers(list, leftovers, dir) ==
  IF dir = "L" THEN Reverse(leftovers) \o list ELSE list \o leftovers

FinalLen_stored(listAfter, total_new_elements, leftovers_count) ==
  Len(listAfter)

FinalLen(listAfter, total_new_elements, leftovers_count) ==
  Len(listAfter) + (total_new_elements - leftovers_count)

NewElements(n) == [i \in 1..n |-> nextElem + i - 1]

Push(c, key, n, dir) ==
  /\ pc[c] = "idle" /\ CanLockKv
  /\ nextElem + n - 1 <= MaxElem
  /\ LET new_elements == NewElements(n)
         entry == IF kv[key].tag = "none" THEN EmptyList ELSE kv[key]
     IN /\ nextElem' = nextElem + n
        /\ IF entry.tag = "list"
           THEN LET d == Drain(room[key], new_elements, chBuf)
                    listAfter == Leftovers(entry.list, d.rest, dir)
                IN /\ room' = [room EXCEPT ![key] = d.queue]
                   /\ chBuf' = d.bufs
                   /\ kv' = [kv EXCEPT ![key] = [entry EXCEPT !.list = listAfter]]
                   /\ Return(c, RInt(FinalLen(listAfter, n, Len(d.rest))))
           ELSE /\ kv' = [kv EXCEPT ![key] = entry]
                /\ Return(c, RNothing)
                /\ UNCHANGED <<room, chBuf>>
  /\ UNCHANGED <<poisoned, rxAlive, nextEp>>
  /\ UNCHANGED <<clock, command_queue>>

\* A handler panics while it holds the kv_store lock: the mutex is poisoned
\* and the connection task ends.
Panic(c) ==
  /\ poisoned' = TRUE
  /\ pc' = [pc EXCEPT ![c] = "dead"]
  /\ loc' = [loc EXCEPT ![c] = NoLoc]
  /\ exec' = [exec EXCEPT ![c] = NoExec]
  /\ reply' = [conn |-> c, r |-> RNothing]

\* ------------------------------------------------------------- process_pop
RECURSIVE PopLoop_keep(_, _, _, _)
PopLoop_keep(list, delete_amt, dropped_items, dir) ==
  IF delete_amt > 0 /\ Len(dropped_items) < Len(list)
  THEN PopLoop_keep(list, delete_amt - 1,
                    Append(dropped_items, list[Len(dropped_items) + 1]), dir)
  ELSE [list |-> list, dropped |-> dropped_items]

RECURSIVE PopLoop(_, _, _, _)
PopLoop(list, delete_amt, dropped_items, dir) ==
  IF delete_amt > 0 /\ list # <<>>
  THEN IF dir = "L"
       THEN PopLoop(Tail(list), delete_amt - 1,
                    Append(dropped_items, Head(list)), dir)
       ELSE PopLoop(SubSeq(list, 1, Len(list) - 1), delete_amt - 1,
                    Append(dropped_items, list[Len(list)]), dir)
  ELSE [list |-> list, dropped |-> dropped_items]

ElemSeq(s) == [i \in 1..Len(s) |-> Elem(s[i])]

PopReply(dropped_items) ==
  IF Len(dropped_items) > 1 THEN RArr(ElemSeq(dropped_items))
  ELSE RBulk(Elem(dropped_items[1]))

\* the keyspace after a pop left `list` at key
AfterPop(key, list) ==
  IF list = <<>> THEN [kv EXCEPT ![key] = NoValue]
  ELSE [kv EXCEPT ![key].list = list]

\* given = a count argument is present (parts.len() >= 3)
Pop(c, key, given, count, dir) ==
  /\ pc[c] = "idle" /\ CanLockKv
  /\ UNCHANGED <<room, chBuf, rxAlive, nextEp, nextElem>>
  /\ LET delete_amt == IF given THEN count ELSE 1
     IN CASE kv[key].tag = "none" ->
               Return(c, RNullBulk) /\ UNCHANGED <<kv, poisoned>>
          [] kv[key].tag = "list" /\ kv[key].list = <<>> ->
               Return(c, RNullBulk) /\ UNCHANGED <<kv, poisoned>>
          [] kv[key].tag = "list" /\ kv[key].list # <<>> ->
               LET p == PopLoop(kv[key].list, delete_amt, <<>>, dir)
               IN IF p.dropped = <<>>
                  THEN \* dropped_items[0] indexes an empty vector
                       Panic(c) /\ UNCHANGED kv
                  ELSE /\ kv' = AfterPop(key, p.list)
                       /\ Return(c, PopReply(p.dropped))
                       /\ UNCHANGED poisoned
          [] OTHER -> Return(c, RNothing) /\ UNCHANGED <<kv, poisoned>>
  /\ UNCHANGED <<clock, command_queue>>

\* ---------------------------------------------------------- process_lrange
Max(a, b) == IF a > b THEN a ELSE b

\* the slice process_lrange encodes for a list and two parsed indices
LrangeSlice(list, start, end) ==
  LET len == Len(list)
      start1 == IF start < 0 THEN len + start ELSE start
      end1 == IF end < 0 THEN len + end ELSE end
      start_idx == Max(start1, 0)
      end_idx == IF Max(end1, 0) + 1 < len THEN Max(end1, 0) + 1 ELSE len
  IN IF start_idx >= len THEN <<>>
     ELSE IF start_idx >= end_idx THEN <<>>
     ELSE SubSeq(list, start_idx + 1, end_idx)

LrangeReply(store, key, start, end) ==
  CASE store[key].tag = "none" -> RArr(<<>>)
    [] store[key].tag = "list" ->
         RArr([i \in 1..Len(LrangeSlice(store[key].list, start, end)) |->
                 Elem(LrangeSlice(store[key].list, start, end)[i])])
    [] OTHER -> RNothing

Lrange(c, key, start, end) ==
  /\ pc[c] = "idle" /\ CanLockKv
  /\ Return(c, LrangeReply(kv, key, start, end))
  /\ UNCHANGED <<kv, poisoned, room, chBuf, rxAlive, nextEp, nextElem>>
  /\ UNCHANGED <<clock, command_queue>>

\* ------------------------------------------------------------ process_llen
LlenReply(store, key) ==
  CASE store[key].tag = "none" -> RInt(0)
    [] store[key].tag = "list" -> RInt(Len(store[key].list))
    [] OTHER -> RNothing

Llen(c, key) ==
  /\ pc[c] = "idle" /\ CanLockKv
  /\ Return(c, LlenReply(kv, key))
  /\ UNCHANGED <<kv, poisoned, room, chBuf, rxAlive, nextEp, nextElem>>
  /\ UNCHANGED <<clock, command_queue>>

\* ------------------------------------------------------------ process_type
\* Instant::now() > expiry
IsExpired_ge(value) == value.exp # NoExpiry /\ clock >= value.exp

IsExpired(value) == value.exp # NoExpiry /\ clock > value.exp

TypeReply(store, key) ==
  IF store[key].tag = "none" THEN RSimple("none") ELSE RSimple(store[key].tag)

Type(c, key) ==
  /\ pc[c] = "idle" /\ CanLockKv
  /\ IF kv[key].tag # "none" /\ IsExpired(kv[key])
     THEN /\ kv' = [kv EXCEPT ![key] = NoValue]
          /\ Return(c, RSimple("none"))
     ELSE /\ Return(c, TypeReply(kv, key))
          /\ UNCHANGED kv
  /\ UNCHANGED <<poisoned, room, chBuf, rxAlive, nextEp, nextElem>>
  /\ UNCHANGED <<clock, command_queue>>

\* ------------------------------------------------------- init_waiting_room
RECURSIVE Register(_, _, _)
Register(rm, keys, tx) ==
  IF keys = <<>> THEN rm
  ELSE Register([rm EXCEPT ![Head(keys)] = Append(@, tx)], Tail(keys), tx)

\* channels that handlers past their first check are still going to create
Pending ==
  Cardinality({c \in Conns : \/ pc[c] \in {"blpop_reg", "xread_reg"}
                             \/ pc[c] = "xread_first" /\ loc[c].block # "none"})
CanBlock(limit) == nextEp + Pending <= limit

InitWaitingRoom(c, nextpc) ==
  /\ room' = Register(room, loc[c].keys, nextEp)
  /\ rxAlive' = [rxAlive EXCEPT ![nextEp] = TRUE]
  /\ chBuf' = [chBuf EXCEPT ![nextEp] = <<>>]
  /\ nextEp' = nextEp + 1
  /\ loc' = [loc EXCEPT ![c].ep = nextEp]
  /\ pc' = [pc EXCEPT ![c] = nextpc]

\* the handler's Receiver goes out of scope
DropRx(tx) ==
  /\ rxAlive' = [rxAlive EXCEPT ![tx] = FALSE]
  /\ chBuf' = [chBuf EXCEPT ![tx] = <<>>]

\* ----------------------------------------------------------- process_blpop
\* first span: the keyspace check under the kv_store lock
BlpopImmediate(key) == kv[key].tag = "list" /\ kv[key].list # <<>>

AfterBlpop(key) == [kv EXCEPT ![key].list = Tail(@)]

BlpopCheck(c, key, timed) ==
  /\ pc[c] = "idle" /\ CanLockKv
  /\ UNCHANGED <<poisoned, room, chBuf, rxAlive, nextEp, nextElem>>
  /\ IF BlpopImmediate(key)
     THEN /\ kv' = AfterBlpop(key)
          /\ Return(c, RKeyVal(key, Elem(Head(kv[key].list))))
     ELSE /\ CanBlock(MaxEp)
          /\ pc' = [pc EXCEPT ![c] = "blpop_reg"]
          /\ loc' = [loc EXCEPT ![c] = [NoLoc EXCEPT !.cmd = "BLPOP",
                         !.keys = <<key>>,
                         !.block = IF timed THEN "timed" ELSE "zero"]]
          /\ Silent
          /\ UNCHANGED kv
  /\ UNCHANGED <<clock, command_queue>>

\* second span: registration under the waiting_room lock
BlpopRegister(c) ==
  /\ pc[c] = "blpop_reg"
  /\ InitWaitingRoom(c, "blpop_wait")
  /\ Silent
  /\ UNCHANGED <<kv, poisoned, nextElem>>
  /\ UNCHANGED <<clock, command_queue>>

\* rx.recv() yields the value a PUSH handed over
BlpopRecv(c) ==
  /\ pc[c] = "blpop_wait"
  /\ chBuf[loc[c].ep] # <<>>
  /\ Return(c, RKeyVal(loc[c].keys[1], Head(chBuf[loc[c].ep])))
  /\ DropRx(loc[c].ep)
  /\ UNCHANGED <<kv, poisoned, room, nextEp, nextElem>>
  /\ UNCHANGED <<clock, command_queue>>

\* tokio::time::timeout elapses with nothing received
BlpopTimeout(c) ==
  /\ pc[c] = "blpop_wait"
  /\ loc[c].block = "timed"
  /\ chBuf[loc[c].ep] = <<>>
  /\ pc' = [pc EXCEPT ![c] = "blpop_prune"]
  /\ Silent
  /\ UNCHANGED <<kv, poisoned, room, chBuf, rxAlive, nextEp, nextElem, loc>>
  /\ UNCHANGED <<clock, command_queue>>

\* queue.retain(|sender| !sender.is_closed()), evaluated while rx is in scope
Retain(queue) == SelectSeq(queue, LAMBDA tx : ~IsClosed(tx))

BlpopPrune(c) ==
  /\ pc[c] = "blpop_prune"
  /\ room' = [room EXCEPT ![loc[c].keys[1]] = Retain(@)]
  /\ Return(c, RNullArr)
  /\ DropRx(loc[c].ep)
  /\ UNCHANGED <<kv, poisoned, nextEp, nextElem>>
  /\ UNCHANGED <<clock, command_queue>>

\* ------------------------------------------------------------ stream ids
\* ids are pairs <<ms, seq>>; Rust compares the tuples lexicographically
IdGT(a, b) == a[1] > b[1] \/ (a[1] = b[1] /\ a[2] > b[2])

\* forms of the id argument of XADD: "ms-seq", "ms-*", "*", "*-*"
IdForms == {"explicit", "autoseq", "star", "starstar"}
IdSpecs ==
  [form : {"explicit"}, ms : MsVals, seq : 0..U64Max]
    \cup [form : {"autoseq"}, ms : MsVals, seq : {0}]
    \cup [form : {"star", "starstar"}, ms : {0}, seq : {0}]
\* the id argument of XREAD naming the current last entry
Dollar == <<-1, -1>>

\* parse_entity_id: "*" as ms reads the wall clock, "*" as seq is a placeholder
ParseEntityId(spec, now) ==
  CASE spec.form = "explicit" -> <<spec.ms, spec.seq>>
    [] spec.form = "autoseq"  -> <<spec.ms, 0>>
    [] spec.form = "star"     -> <<now, 0>>
    [] spec.form = "starstar" -> <<now, 0>>

EndsWithDashStar(spec) == spec.form \in {"autoseq", "starstar"}

LastId(stream) == IF stream = <<>> THEN <<0, 0>> ELSE stream[Len(stream)]

\* last_seq + 1 on a u64: wraps in a release build
WrapInc(n) == (n + 1) % (U64Max + 1)
Overflows(stream, spec, now) ==
  /\ EndsWithDashStar(spec) /\ stream # <<>>
  /\ ParseEntityId(spec, now)[1] = LastId(stream)[1]
  /\ LastId(stream)[2] = U64Max

ResolveId_placeholder(stream, spec, now) == ParseEntityId(spec, now)

ResolveId(stream, spec, now) ==
  LET initial == ParseEntityId(spec, now)
      initial_ms == initial[1]
  IN IF EndsWithDashStar(spec)
     THEN IF stream # <<>>
          THEN IF initial_ms = LastId(stream)[1]
               THEN <<initial_ms, WrapInc(LastId(stream)[2])>>
               ELSE IF initial_ms = 0 THEN <<initial_ms, 1>>
               ELSE <<initial_ms, 0>>
          ELSE <<initial_ms, IF initial_ms = 0 THEN 1 ELSE 0>>
     ELSE initial

ValidEntityId_ms(stream, id) ==
  LET last == LastId(stream)
  IN ~(id[1] < last[1])

ValidEntityId_eq(stream, id) ==
  LET last == LastId(stream)
  IN ~((id[1] < last[1]) \/ (id[1] = last[1] /\ id[2] < last[2]))

ValidEntityId(stream, id) ==
  LET last == LastId(stream)
  IN ~((id[1] < last[1]) \/ (id[1] = last[1] /\ id[2] <= last[2]))

\* the wake-up loop of XADD: every queued endpoint is popped and signalled
RECURSIVE Notify_head(_, _, _)
Notify_head(queue, bufs, id) ==
  IF queue = <<>> THEN bufs
  ELSE IF TrySendOk(bufs, Head(queue))
       THEN [bufs EXCEPT ![Head(queue)] = Append(@, IdMsg(id))]
       ELSE Notify_head(Tail(queue), bufs, id)

RECURSIVE Notify(_, _, _)
Notify(queue, bufs, id) ==
  IF queue = <<>> THEN bufs
  ELSE Notify(Tail(queue),
              IF TrySendOk(bufs, Head(queue))
              THEN [bufs EXCEPT ![Head(queue)] = Append(@, IdMsg(id))]
              ELSE bufs,
              id)

\* ------------------------------------------------------------ process_xadd
Xadd(c, key, spec, now) ==
  /\ pc[c] = "idle" /\ CanLockKv
  /\ UNCHANGED <<rxAlive, nextEp, nextElem>>
  /\ LET entry == IF kv[key].tag = "none" THEN EmptyStream ELSE kv[key]
         stream == entry.stream
         id == ResolveId(stream, spec, now)
     IN IF entry.tag # "stream"
        THEN Return(c, RNothing) /\ UNCHANGED <<kv, poisoned, room, chBuf>>
        ELSE \/ /\ Overflows(stream, spec, now)     \* debug build: add overflows
                /\ Panic(c)
                /\ UNCHANGED <<kv, room, chBuf>>
             \/ /\ id = <<0, 0>>
                /\ kv' = [kv EXCEPT ![key] = entry]
                /\ Return(c, RErr("ERR The ID specified in XADD must be greater than 0-0"))
                /\ UNCHANGED <<poisoned, room, chBuf>>
             \/ /\ id # <<0, 0>> /\ ValidEntityId(stream, id)
                /\ kv' = [kv EXCEPT ![key] = [entry EXCEPT !.stream = Append(stream, id)]]
                /\ chBuf' = Notify(room[key], chBuf, id)
                /\ room' = [room EXCEPT ![key] = <<>>]
                /\ Return(c, RBulk(IdMsg(id)))
                /\ UNCHANGED poisoned
             \/ /\ id # <<0, 0>> /\ ~ValidEntityId(stream, id)
                /\ kv' = [kv EXCEPT ![key] = entry]
                /\ Return(c, RErr("ERR The ID specified in XADD is equal or smaller than the target stream top item"))
                /\ UNCHANGED <<poisoned, room, chBuf>>
  /\ UNCHANGED <<clock, command_queue>>

\* ---------------------------------------------------------- process_xrange
\* the end bound `+`: (u64::MAX, u64::MAX)
XrangeTop == <<U64Max, U64Max>>

XrangeEntries(stream, start_bound, end_bound) ==
  SelectSeq(stream, LAMBDA e : ~IdGT(start_bound, e) /\ ~IdGT(e, end_bound))

XrangeReply(store, key, start_bound, end_bound) ==
  CASE store[key].tag = "none" -> RArr(<<>>)
    [] store[key].tag = "stream" ->
         LET entries == XrangeEntries(store[key].stream, start_bound, end_bound)
         IN RArr([i \in 1..Len(entries) |-> IdMsg(entries[i])])
    [] OTHER -> RNothing

Xrange(c, key, start_bound, end_bound) ==
  /\ pc[c] = "idle" /\ CanLockKv
  /\ Return(c, XrangeReply(kv, key, start_bound, end_bound))
  /\ UNCHANGED <<kv, poisoned, room, chBuf, rxAlive, nextEp, nextElem>>
  /\ UNCHANGED <<clock, command_queue>>

\* ----------------------------------------------------------- process_xread
\* get_effective_ids_for_xread
EffectiveId_zero(store, key, id) ==
  IF id = Dollar THEN <<0, 0>> ELSE id

EffectiveId(store, key, id) ==
  IF id = Dollar
  THEN IF store[key].tag = "stream" /\ store[key].stream # <<>>
       THEN LastId(store[key].stream) ELSE <<0, 0>>
  ELSE id

EffectiveIds(store, keys, ids) ==
  [i \in 1..Len(keys) |-> EffectiveId(store, keys[i], ids[i])]

\* perform_xread: per key the entries with id > filter, keys without hits omitted
EntriesAfter_ge(stream, filter_id) ==
  SelectSeq(stream, LAMBDA e : ~IdGT(filter_id, e))

EntriesAfter(stream, filter_id) ==
  SelectSeq(stream, LAMBDA e : IdGT(e, filter_id))

RECURSIVE PerformXread(_, _, _)
PerformXread(store, keys, ids) ==
  IF keys = <<>> THEN <<>>
  ELSE LET key == Head(keys)
           hits == IF store[key].tag = "stream"
                   THEN EntriesAfter(store[key].stream, Head(ids)) ELSE <<>>
           rest == PerformXread(store, Tail(keys), Tail(ids))
       IN IF hits # <<>> THEN <<[key |-> key, entries |-> hits]>> \o rest
          ELSE rest

XreadReply(result) == IF result = <<>> THEN RNullArr ELSE RStreams(result)

\* `$` resolution, first lock span
XreadStart(c, keys, ids, block) ==
  /\ pc[c] = "idle" /\ CanLockKv
  /\ block # "none" => CanBlock(MaxXreadEp)
  /\ pc' = [pc EXCEPT ![c] = "xread_first"]
  /\ loc' = [loc EXCEPT ![c] = [NoLoc EXCEPT !.cmd = "XREAD", !.keys = keys,
                 !.ids = EffectiveIds(kv, keys, ids), !.block = block]]
  /\ Silent
  /\ UNCHANGED <<kv, poisoned, room, chBuf, rxAlive, nextEp, nextElem>>
  /\ UNCHANGED <<clock, command_queue>>

\* first pass
XreadFirst(c) ==
  /\ pc[c] = "xread_first" /\ CanLockKv
  /\ LET result == PerformXread(kv, loc[c].keys, loc[c].ids)
     IN IF result # <<>> \/ loc[c].block = "none"
        THEN Return(c, XreadReply(result))
        ELSE /\ pc' = [pc EXCEPT ![c] = "xread_reg"]
             /\ Silent
             /\ UNCHANGED loc
  /\ UNCHANGED <<kv, poisoned, room, chBuf, rxAlive, nextEp, nextElem>>
  /\ UNCHANGED <<clock, command_queue>>

XreadRegister(c) ==
  /\ pc[c] = "xread_reg"
  /\ InitWaitingRoom(c, "xread_wait")
  /\ Silent
  /\ UNCHANGED <<kv, poisoned, nextElem>>
  /\ UNCHANGED <<clock, command_queue>>

\* rx.recv() returns the wake-up message, or the timeout elapses; the handler
\* then makes its second pass and returns (dropping its Receiver)
XreadSecond(c) ==
  /\ CanLockKv
  /\ Return(c, XreadReply(PerformXread(kv, loc[c].keys, loc[c].ids)))
  /\ DropRx(loc[c].ep)
  /\ UNCHANGED <<kv, poisoned, room, nextEp, nextElem>>
  /\ UNCHANGED <<clock, command_queue>>

XreadRecv(c) ==
  /\ pc[c] = "xread_wait"
  /\ chBuf[loc[c].ep] # <<>>
  /\ XreadSecond(c)

XreadTimeout(c) ==
  /\ pc[c] = "xread_wait"
  /\ loc[c].block = "timed"
  /\ chBuf[loc[c].ep] = <<>>
  /\ XreadSecond(c)

\* a handler reaching kv_store.lock().unwrap() on the poisoned mutex panics
KvPanic(c) ==
  /\ poisoned
  /\ pc[c] \in {"idle", "xread_first"}
  /\ pc' = [pc EXCEPT ![c] = "dead"]
  /\ IF loc[c].ep # 0 THEN DropRx(loc[c].ep) ELSE UNCHANGED <<rxAlive, chBuf>>
  /\ loc' = [loc EXCEPT ![c] = NoLoc]
  /\ Silent
  /\ UNCHANGED <<kv, poisoned, room, nextEp, nextElem>>
  /\ UNCHANGED <<clock, command_queue>>

\* ------------------------------------------------------------- process_set
\* ttl: NoExpiry when no EX/PX is given, else the duration
ExpiresAt(ttl) == IF ttl = NoExpiry THEN NoExpiry ELSE clock + ttl

Set_keepexpiry(c, key, value, ttl) ==
  /\ pc[c] = "idle" /\ CanLockKv
  /\ kv' = [kv EXCEPT ![key] =
              StringValue(value, IF ttl = NoExpiry THEN kv[key].exp ELSE clock + ttl)]
  /\ Return(c, RSimple("OK"))
  /\ UNCHANGED <<poisoned, room, chBuf, rxAlive, nextEp, nextElem>>
  /\ UNCHANGED <<clock, command_queue>>

Set(c, key, value, ttl) ==
  /\ pc[c] = "idle" /\ CanLockKv
  /\ kv' = [kv EXCEPT ![key] = StringValue(value, ExpiresAt(ttl))]
  /\ Return(c, RSimple("OK"))
  /\ UNCHANGED <<poisoned, room, chBuf, rxAlive, nextEp, nextElem>>
  /\ UNCHANGED <<clock, command_queue>>

\* ------------------------------------------------------------- process_get
Get_noremove(c, key) ==
  /\ pc[c] = "idle" /\ CanLockKv
  /\ CASE kv[key].tag = "none" \/ IsExpired(kv[key]) -> Return(c, RNullBulk)
       [] kv[key].tag = "string" /\ ~IsExpired(kv[key]) -> Return(c, RBulk(kv[key].str))
       [] OTHER -> Return(c, RNothing)
  /\ UNCHANGED <<kv, poisoned, room, chBuf, rxAlive, nextEp, nextElem>>
  /\ UNCHANGED <<clock, command_queue>>

Get(c, key) ==
  /\ pc[c] = "idle" /\ CanLockKv
  /\ CASE kv[key].tag = "none" ->
            Return(c, RNullBulk) /\ UNCHANGED kv
       [] kv[key].tag # "none" /\ IsExpired(kv[key]) ->
            /\ kv' = [kv EXCEPT ![key] = NoValue]
            /\ Return(c, RNullBulk)
       [] kv[key].tag = "string" /\ ~IsExpired(kv[key]) ->
            Return(c, RBulk(kv[key].str)) /\ UNCHANGED kv
       [] OTHER -> Return(c, RNothing) /\ UNCHANGED kv
  /\ UNCHANGED <<poisoned, room, chBuf, rxAlive, nextEp, nextElem>>
  /\ UNCHANGED <<clock, command_queue>>

\* ------------------------------------------------------------ process_incr
I64Min == -I64Max - 1
\* item.parse::<i64>() succeeds
ParsesI64(str) == str[1] = 2 /\ str[2] >= I64Min /\ str[2] <= I64Max
\* num + 1 on an i64: wraps in a release build
WrapIncI64(num) == IF num = I64Max THEN I64Min ELSE num + 1

\* what process_incr stores and replies for the record found at the key
IncrValue_coerce(value) ==
  IF value.tag = "string" /\ ParsesI64(value.str)
  THEN [value |-> [value EXCEPT !.str = NumStr(WrapIncI64(value.str[2]))],
        r |-> RInt(WrapIncI64(value.str[2]))]
  ELSE [value |-> StringValue(NumStr(1), NoExpiry), r |-> RInt(1)]

IncrValue_nostore(value) ==
  CASE value.tag = "none" ->
         [value |-> NoValue, r |-> RInt(1)]
    [] value.tag = "string" /\ ParsesI64(value.str) ->
         [value |-> value, r |-> RInt(WrapIncI64(value.str[2]))]
    [] value.tag = "string" /\ ~ParsesI64(value.str) ->
         [value |-> value, r |-> RErr("ERR value is not an integer or out of range")]
    [] OTHER ->
         [value |-> value,
          r |-> RErr("WRONGTYPE Operation against a key not holding a string")]

IncrValue(value) ==
  CASE value.tag = "none" ->
         [value |-> StringValue(NumStr(1), NoExpiry), r |-> RInt(1)]
    [] value.tag = "string" /\ ParsesI64(value.str) ->
         [value |-> [value EXCEPT !.str = NumStr(WrapIncI64(value.str[2]))],
          r |-> RInt(WrapIncI64(value.str[2]))]
    [] value.tag = "string" /\ ~ParsesI64(value.str) ->
         [value |-> value, r |-> RErr("ERR value is not an integer or out of range")]
    [] OTHER ->
         [value |-> value,
          r |-> RErr("WRONGTYPE Operation against a key not holding a string")]

IncrOverflows(value) ==
  value.tag = "string" /\ ParsesI64(value.str) /\ value.str[2] = I64Max

Incr(c, key) ==
  /\ pc[c] = "idle" /\ CanLockKv
  /\ \/ /\ IncrOverflows(kv[key])          \* debug build: the add overflows
        /\ Panic(c)
        /\ UNCHANGED kv
     \/ /\ kv' = [kv EXCEPT ![key] = IncrValue(kv[key]).value]
        /\ Return(c, IncrValue(kv[key]).r)
        /\ UNCHANGED poisoned
  /\ UNCHANGED <<room, chBuf, rxAlive, nextEp, nextElem>>
  /\ UNCHANGED <<clock, command_queue>>

\* the monotonic clock advances
Tick ==
  /\ clock < MaxClock
  /\ clock' = clock + 1
  /\ Silent
  /\ UNCHANGED <<kv, poisoned, room, chBuf, rxAlive, nextEp, nextElem, pc, loc,
                 command_queue>>

StreamKeys == {"s"}
XreadArgs ==
  [keys : {<<"s">>}, ids : {<<x>> : x \in {Dollar, <<0, 0>>, <<1, 0>>}}]

\* connections issuing XREAD, and connections issuing XADD
Readers == {"c1", "c2"}
Writers == {"c3"}
\* the first reader issues every form of XREAD, the second only the
\* indefinitely blocking `XREAD BLOCK 0 STREAMS s $`
ReaderArgs(c) == IF c = "c1" THEN XreadArgs ELSE {a \in XreadArgs : a.ids = <<Dollar>>}
ReaderBlocks(c) == IF c = "c1" THEN {"none", "zero", "timed"} ELSE {"zero"}

NextStream ==
  \/ \E c \in Writers, key \in StreamKeys, spec \in IdSpecs, now \in ClockVals :
        Xadd(c, key, spec, now)
  \/ \E c \in Readers : \E a \in ReaderArgs(c), block \in ReaderBlocks(c) :
        XreadStart(c, a.keys, a.ids, block)
  \/ \E c \in Conns : XreadFirst(c)
  \/ \E c \in Conns : XreadRegister(c)
  \/ \E c \in Conns : XreadRecv(c)
  \/ \E c \in Conns : XreadTimeout(c)
  \/ \E c \in Conns : KvPanic(c)

SpecStream == Init /\ [][NextStream]_vars

ListKeys == {"k"}

NextList ==
  \/ \E c \in Conns, key \in ListKeys, n \in 1..MaxPush, dir \in {"L", "R"} :
        Push(c, key, n, dir)
  \/ \E c \in Conns, key \in ListKeys, given \in BOOLEAN, count \in 0..MaxCount,
        dir \in {"L", "R"} : Pop(c, key, given, count, dir)
  \/ \E c \in Conns, key \in ListKeys : Llen(c, key)
  \/ \E c \in Conns, key \in ListKeys : Type(c, key)
  \/ \E c \in Conns, key \in ListKeys, timed \in BOOLEAN : BlpopCheck(c, key, timed)
  \/ \E c \in Conns : BlpopRegister(c)
  \/ \E c \in Conns : BlpopRecv(c)
  \/ \E c \in Conns : BlpopTimeout(c)
  \/ \E c \in Conns : BlpopPrune(c)
  \/ \E c \in Conns : KvPanic(c)

Spec == Init /\ [][NextList]_vars

\* ------------------------------------------------------------ transactions
\* the command_queue a handler is given: the connection's own, or the
\* `&mut None` that process_exec passes to the commands it runs
CurQueue(c) == IF exec[c].on THEN None ELSE command_queue[c]
SetCurQueue(c, q) ==
  IF exec[c].on THEN command_queue' = command_queue
  ELSE command_queue' = [command_queue EXCEPT ![c] = q]

TxFrame == UNCHANGED <<kv, poisoned, room, chBuf, rxAlive, nextEp, nextElem, clock>>

\* process_multi
Multi(c) ==
  /\ pc[c] = "idle"
  /\ IF CurQueue(c).some
     THEN /\ Return(c, RErr("ERR MULTI calls can not be nested"))
          /\ UNCHANGED command_queue
     ELSE /\ SetCurQueue(c, Some(<<>>))
          /\ Return(c, RSimple("OK"))
  /\ TxFrame

ProcessExec_keep(c) ==
  /\ pc[c] = "idle"
  /\ LET taken == CurQueue(c)
     IN CASE ~taken.some ->
               /\ Return(c, RErr("ERR EXEC without MULTI"))
          [] taken.some /\ taken.q = <<>> ->
               /\ Return(c, RArr(<<>>))
          [] taken.some /\ taken.q # <<>> ->
               /\ exec' = [exec EXCEPT ![c] = [on |-> TRUE, queue |-> taken.q,
                                                responses |-> <<>>]]
               /\ reply' = NoReply
               /\ UNCHANGED <<pc, loc>>
  /\ UNCHANGED command_queue
  /\ TxFrame

\* process_exec up to its loop: command_queue.take(), then the early returns
ProcessExec(c) ==
  /\ pc[c] = "idle"
  /\ LET taken == CurQueue(c)
     IN CASE ~taken.some ->
               /\ Return(c, RErr("ERR EXEC without MULTI"))
               /\ UNCHANGED command_queue
          [] taken.some /\ taken.q = <<>> ->
               /\ SetCurQueue(c, None)
               /\ Return(c, RArr(<<>>))
          [] taken.some /\ taken.q # <<>> ->
               /\ SetCurQueue(c, None)
               /\ exec' = [exec EXCEPT ![c] = [on |-> TRUE, queue |-> taken.q,
                                                responses |-> <<>>]]
               /\ reply' = NoReply
               /\ UNCHANGED <<pc, loc>>
  /\ TxFrame

\* process_discard
Discard_keep(c) ==
  /\ pc[c] = "idle"
  /\ IF CurQueue(c).some
     THEN Return(c, RSimple("OK"))
     ELSE Return(c, RErr("ERR DISCARD without MULTI"))
  /\ UNCHANGED command_queue
  /\ TxFrame

Discard(c) ==
  /\ pc[c] = "idle"
  /\ IF CurQueue(c).some
     THEN Return(c, RSimple("OK"))
     ELSE Return(c, RErr("ERR DISCARD without MULTI"))
  /\ SetCurQueue(c, None)
  /\ TxFrame

\* handle_push_command_queue
HandlePushCommandQueue(c, parts) ==
  /\ Len(command_queue[c].q) < MaxQueue
  /\ command_queue' = [command_queue EXCEPT ![c] = Some(Append(@.q, parts))]
  /\ Return(c, RSimple("QUEUED"))
  /\ TxFrame

\* a handler returns Err before it takes any lock (too few arguments, an
\* index or flag that does not parse), or the table has no entry for the
\* command: match_result logs the error and yields no bytes
InternalError_frame(c) ==
  /\ pc[c] = "idle"
  /\ Return(c, RErr("ERR unknown command"))
  /\ UNCHANGED command_queue
  /\ TxFrame

InternalError(c) ==
  /\ pc[c] = "idle"
  /\ Return(c, RNothing)
  /\ UNCHANGED command_queue
  /\ TxFrame

\* execute_commands: the dispatch table.  An argument vector is modelled by
\* its command name and key: RPUSH supplies one fresh element, LPOP has no
\* count, BLPOP has timeout 0; GET comes without its key, LRANGE with an
\* index that is not a number, SET with an expiry flag other than EX/PX.
Cmd(name) == [name |-> name, key |-> "k"]

ExecuteCommands(c, parts) ==
  CASE parts.name = "INCR" -> Incr(c, parts.key)
    [] parts.name = "RPUSH" -> Push(c, parts.key, 1, "R")
    [] parts.name = "LPOP" -> Pop(c, parts.key, FALSE, 1, "L")
    [] parts.name = "BLPOP" -> BlpopCheck(c, parts.key, FALSE)
    [] parts.name = "MULTI" -> Multi(c)
    [] parts.name = "EXEC" -> ProcessExec(c)
    [] parts.name = "DISCARD" -> Discard(c)
    [] parts.name = "GET" /\ parts.key = "" -> InternalError(c)
    [] parts.name = "LRANGE" -> InternalError(c)
    [] parts.name = "SET" -> InternalError(c)
    [] OTHER -> InternalError(c)

\* is the command put on the queue instead of being executed
Queues_nonblocking(c, parts) ==
  command_queue[c].some /\ parts.name \notin {"EXEC", "DISCARD", "BLPOP"}

Queues(c, parts) ==
  command_queue[c].some /\ parts.name \notin {"EXEC", "DISCARD"}

\* parse_resp: a request read from the socket of a connection whose previous
\* request has been answered
ParseResp(c, parts) ==
  /\ pc[c] = "idle" /\ ~exec[c].on
  /\ IF Queues(c, parts)
     THEN HandlePushCommandQueue(c, parts)
     ELSE ExecuteCommands(c, parts)

\* the loop of process_exec runs the next queued command
ExecNext(c) ==
  /\ exec[c].on /\ pc[c] = "idle"
  /\ ExecuteCommands(c, Head(exec[c].queue))

\* connections that use transactions, and connections that do not
TxConns == {"c1"}
PlainConns == {"c2"}
TxCmds == {Cmd(n) : n \in {"INCR", "RPUSH", "LPOP", "BLPOP", "MULTI", "EXEC", "DISCARD"}}
PlainCmds == {Cmd(n) : n \in {"INCR", "RPUSH", "LPOP"}}

NextTx ==
  \/ \E c \in TxConns, parts \in TxCmds : ParseResp(c, parts)
  \/ \E c \in PlainConns, parts \in PlainCmds : ParseResp(c, parts)
  \/ \E c \in Conns : ExecNext(c)
  \/ \E c \in Conns : BlpopRegister(c)
  \/ \E c \in Conns : BlpopRecv(c)
  \/ \E c \in Conns : KvPanic(c)

SpecTx == Init /\ [][NextTx]_vars

\* the tasks are scheduled fairly: a handler that can take its next step
\* (the next queued command of an EXEC, the registration of a BLPOP, the
\* receipt of a value handed to it) eventually takes it; clients are under
\* no obligation to send anything
TxFairness ==
  \A c \in Conns :
     /\ WF_vars(ExecNext(c))
     /\ WF_vars(BlpopRegister(c))
     /\ WF_vars(BlpopRecv(c))

SpecTxLive == Init /\ [][NextTx]_vars /\ TxFairness

\* ------------------------------------------------------ rejected commands
\* argument vectors that end in an internal error: an unknown command name,
\* GET without a key, LRANGE k x y, SET k v ZZ 1
ErrCmds ==
  {[name |-> "FOO", key |-> "k"], [name |-> "GET", key |-> ""],
   Cmd("LRANGE"), Cmd("SET")}
ErrTxCmds == ErrCmds \cup {Cmd(n) : n \in {"RPUSH", "MULTI", "EXEC", "DISCARD"}}
ErrPlainCmds == {Cmd("BLPOP"), [name |-> "FOO", key |-> "k"]}

NextErr ==
  \/ \E c \in TxConns, parts \in ErrTxCmds : ParseResp(c, parts)
  \/ \E c \in PlainConns, parts \in ErrPlainCmds : ParseResp(c, parts)
  \/ \E c \in Conns : ExecNext(c)
  \/ \E c \in Conns : BlpopRegister(c)
  \/ \E c \in Conns : BlpopRecv(c)

SpecErr == Init /\ [][NextErr]_vars

\* ---------------------------------------------------------------- keyspace
\* every kind of non-blocking command applied to one key
SetVals == {NumStr(0), Text(0)}
TtlVals == {NoExpiry, 0, 1}
KsIdSpecs == {s \in IdSpecs : s.form = "explicit" /\ s.seq = 1}
\* LRANGE k 0 -1 and XRANGE k - +
KsIndexPairs == {<<0, -1>>}
KsIdRanges == {<<<<0, 0>>, XrangeTop>>}
\* XREAD STREAMS k 0-0, issued by one connection
KsReaders == {"c1"}
KsXreads == {[keys |-> <<"k">>, ids |-> <<<<0, 0>>>>]}

NextKeyspace ==
  \/ \E c \in Conns, v \in SetVals, ttl \in TtlVals : Set(c, "k", v, ttl)
  \/ \E c \in Conns : Get(c, "k")
  \/ \E c \in Conns : Incr(c, "k")
  \/ \E c \in Conns : Type(c, "k")
  \/ \E c \in Conns : Llen(c, "k")
  \/ \E c \in Conns, n \in 1..MaxPush, dir \in {"L", "R"} : Push(c, "k", n, dir)
  \/ \E c \in Conns, given \in BOOLEAN, count \in 0..MaxCount, dir \in {"L", "R"} :
        Pop(c, "k", given, count, dir)
  \/ \E c \in Conns, spec \in KsIdSpecs, now \in ClockVals : Xadd(c, "k", spec, now)
  \/ \E c \in Conns, ix \in KsIndexPairs : Lrange(c, "k", ix[1], ix[2])
  \/ \E c \in Conns, b \in KsIdRanges : Xrange(c, "k", b[1], b[2])
  \/ \E c \in KsReaders, a \in KsXreads : XreadStart(c, a.keys, a.ids, "none")
  \/ \E c \in Conns : XreadFirst(c)
  \/ \E c \in Conns : KvPanic(c)
  \/ Tick

SpecKeyspace == Init /\ [][NextKeyspace]_vars

\* ------------------------------------------------------------------ LRANGE
\* lists built by pushes and cut by pops, read with every pair of indices
IndexVals == (-MaxIndex)..MaxIndex

NextLrange ==
  \/ \E c \in Conns, n \in 1..MaxPush, dir \in {"L", "R"} : Push(c, "k", n, dir)
  \/ \E c \in Conns : Pop(c, "k", FALSE, 1, "L")
  \/ \E c \in Conns, start \in IndexVals, end \in IndexVals :
        Lrange(c, "k", start, end)

SpecLrange == Init /\ [][NextLrange]_vars

\* ------------------------------------------------------- non-blocking XREAD
\* a reader issues XREAD without BLOCK on one or two streams, in either
\* order, while a writer adds entries to both
XreadKeys == {"s", "k"}
XreadIds == {Dollar, <<0, 0>>, <<1, 0>>}
XreadRequests ==
  [keys : {<<"s">>}, ids : {<<x>> : x \in XreadIds}]
    \cup [keys : {<<"s", "k">>, <<"k", "s">>},
          ids : {<<x, y>> : x \in XreadIds, y \in {<<0, 0>>, <<1, 0>>}}]
XreadIdSpecs == {s \in IdSpecs : s.form = "explicit" /\ s.seq <= 1}

NextXread ==
  \/ \E c \in Writers, key \in XreadKeys, spec \in XreadIdSpecs, now \in ClockVals :
        Xadd(c, key, spec, now)
  \/ \E c \in {"c1"}, a \in XreadRequests : XreadStart(c, a.keys, a.ids, "none")
  \/ \E c \in Conns : XreadFirst(c)

SpecXread == Init /\ [][NextXread]_vars

\* ------------------------------------------------------- generated ids
\* XADD with the id forms the server completes (`ms-*`, `*`, `*-*`) while a
\* reader blocks on the stream
AutoIdSpecs == {s \in IdSpecs : s.form # "explicit"}

NextXadd ==
  \/ \E c \in Writers, key \in StreamKeys, spec \in AutoIdSpecs, now \in ClockVals :
        Xadd(c, key, spec, now)
  \/ \E c \in Readers \ {"c1"} : \E a \in ReaderArgs(c), block \in ReaderBlocks(c) :
        XreadStart(c, a.keys, a.ids, block)
  \/ \E c \in Conns : XreadFirst(c)
  \/ \E c \in Conns : XreadRegister(c)
  \/ \E c \in Conns : XreadRecv(c)
  \/ \E c \in Conns : KvPanic(c)

SpecXadd == Init /\ [][NextXadd]_vars

\* ------------------------------------------------- one key, both registries
\* the wait registry is keyed by key name only: a BLPOP and a blocking XREAD
\* wait without timeout on the same key while a third connection issues
\* RPUSH and XADD on it
SharedKey == "k"
Poppers == {"c1"}
SharedReaders == {"c2"}
Producers == {"c3"}
SharedXreadIds == {Dollar, <<1, 0>>}
SharedIdSpecs == {s \in IdSpecs : s.form = "explicit" /\ s.seq = 1}

NextShared ==
  \/ \E c \in Producers : Push(c, SharedKey, 1, "R")
  \/ \E c \in Producers, spec \in SharedIdSpecs, now \in ClockVals :
        Xadd(c, SharedKey, spec, now)
  \/ \E c \in Poppers : BlpopCheck(c, SharedKey, FALSE)
  \/ \E c \in Conns : BlpopRegister(c)
  \/ \E c \in Conns : BlpopRecv(c)
  \/ \E c \in SharedReaders, id \in SharedXreadIds :
        XreadStart(c, <<SharedKey>>, <<id>>, "zero")
  \/ \E c \in Conns : XreadFirst(c)
  \/ \E c \in Conns : XreadRegister(c)
  \/ \E c \in Conns : XreadRecv(c)

SpecShared == Init /\ [][NextShared]_vars

\* ------------------------------------------------------------ the mutexes
\* The lock skeleton of the handlers: a position of a handler is the point
\* it has reached in its sequence of lock(), guard drop and await, and a
\* step moves it to the next one.  Branches that depend on the data are taken
\* either way; a wake-up or a timeout may come at any time.
\*   kv_only                      a handler with a single kv_store span
\*   push_kv, push_room           process_push: kv_store, then waiting_room
\*   xadd_kv, xadd_room           process_xadd: kv_store, then waiting_room
\*   blpop_kv                     process_blpop: the keyspace check
\*   blpop_reg, blpop_room        init_waiting_room
\*   blpop_wait                   rx.recv().await
\*   blpop_prune, blpop_pruning   the timeout arm: waiting_room
\*   xread_ids                    get_effective_ids_for_xread: kv_store
\*   xread_first, xread_pass      perform_xread (first pass): kv_store
\*   xread_reg, xread_room        init_waiting_room
\*   xread_wait                   rx.recv().await
\*   xread_second, xread_pass2    perform_xread (second pass): kv_store
Mutexes == {"kv_store", "waiting_room"}
KvSpans == {"kv_only", "push_kv", "xadd_kv", "blpop_kv", "xread_ids",
            "xread_pass", "xread_pass2"}
NestedSpans == {"push_room", "xadd_room"}
RoomSpans == {"blpop_room", "blpop_pruning", "xread_room"}
Suspended == {"blpop_wait", "xread_wait"}

\* the guards alive at a position
LocksHeld_await(p) ==
  CASE p \in KvSpans -> {"kv_store"}
    [] p \in NestedSpans -> {"kv_store", "waiting_room"}
    [] p \in RoomSpans \cup Suspended -> {"waiting_room"}
    [] OTHER -> {}

LocksHeld(p) ==
  CASE p \in KvSpans -> {"kv_store"}
    [] p \in NestedSpans -> {"kv_store", "waiting_room"}
    [] p \in RoomSpans -> {"waiting_room"}
    [] OTHER -> {}

\* the mutex the handler calls lock() on next, "" if its next step is not a
\* lock()
Wants(p) ==
  CASE p \in {"push_kv", "xadd_kv", "blpop_reg", "blpop_prune", "xread_reg"} ->
         "waiting_room"
    [] p \in {"xread_first", "xread_second"} -> "kv_store"
    [] OTHER -> ""

Holder(m) == {c \in Conns : m \in LocksHeld(pc[c])}

\* a handler moves on: a lock() returns only when no guard of the mutex is
\* alive anywhere
LockStep(c, from, to) ==
  /\ pc[c] = from
  /\ \A m \in LocksHeld(to) \ LocksHeld(from) : Holder(m) = {}
  /\ pc' = [pc EXCEPT ![c] = to]
  /\ UNCHANGED <<kv, poisoned, room, chBuf, rxAlive, nextEp, nextElem, loc,
                 reply, clock, command_queue, exec>>

\* GET, SET, INCR, TYPE, LLEN, LRANGE, LPOP, XRANGE; also every path of PUSH
\* and XADD that returns without consulting the wait registry
KvOnlyLocks(c) ==
  \/ LockStep(c, "idle", "kv_only")
  \/ LockStep(c, "kv_only", "idle")

PushLocks(c) ==
  \/ LockStep(c, "idle", "push_kv")
  \/ LockStep(c, "push_kv", "push_room")
  \/ LockStep(c, "push_room", "idle")

XaddLocks(c) ==
  \/ LockStep(c, "idle", "xadd_kv")
  \/ LockStep(c, "xadd_kv", "xadd_room")
  \/ LockStep(c, "xadd_room", "idle")

BlpopLocks(c) ==
  \/ LockStep(c, "idle", "blpop_kv")
  \/ LockStep(c, "blpop_kv", "idle")
  \/ LockStep(c, "blpop_kv", "blpop_reg")
  \/ LockStep(c, "blpop_reg", "blpop_room")
  \/ LockStep(c, "blpop_room", "blpop_wait")
  \/ LockStep(c, "blpop_wait", "idle")
  \/ LockStep(c, "blpop_wait", "blpop_prune")
  \/ LockStep(c, "blpop_prune", "blpop_pruning")
  \/ LockStep(c, "blpop_pruning", "idle")

XreadLocks(c) ==
  \/ LockStep(c, "idle", "xread_ids")
  \/ LockStep(c, "xread_ids", "xread_first")
  \/ LockStep(c, "xread_first", "xread_pass")
  \/ LockStep(c, "xread_pass", "idle")
  \/ LockStep(c, "xread_pass", "xread_reg")
  \/ LockStep(c, "xread_reg", "xread_room")
  \/ LockStep(c, "xread_room", "xread_wait")
  \/ LockStep(c, "xread_wait", "xread_second")
  \/ LockStep(c, "xread_second", "xread_pass2")
  \/ LockStep(c, "xread_pass2", "idle")

NextLocks ==
  \/ \E c \in Conns : KvOnlyLocks(c)
  \/ \E c \in Conns : PushLocks(c)
  \/ \E c \in Conns : XaddLocks(c)
  \/ \E c \in Conns : BlpopLocks(c)
  \/ \E c \in Conns : XreadLocks(c)

SpecLocks == Init /\ [][NextLocks]_vars

\* ================================================================ claims
IsList(key) == kv[key].tag \in {"none", "list"}
InSeq(x, s) == \E i \in 1..Len(s) : s[i] = x
Min(a, b) == IF a < b THEN a ELSE b

\* the connection blocked on endpoint tx, if any
Owner(tx) == {c \in Conns : loc[c].ep = tx}
\* a waiter that is neither timed out nor gone
LiveWaiter(tx) == rxAlive[tx] /\ \E c \in Owner(tx) : pc[c] = "blpop_wait"
LiveQueue(key) == SelectSeq(room[key], LiveWaiter)

\* C1: no interleaving of a BLPOP with a PUSH leaves the BLPOP registered and
\* blocked (nothing handed to it) while the list at its key is non-empty.
C1_NoBlockedOnNonEmpty ==
  \A c \in Conns :
    (pc[c] = "blpop_wait" /\ chBuf[loc[c].ep] = <<>>)
      => ~(kv[loc[c].keys[1]].tag = "list" /\ kv[loc[c].keys[1]].list # <<>>)

\* C2: after any PUSH every supplied element is stored in the list at the key
\* or sits in the channel of a waiter whose receiver is alive.
C2_PushLosesNothing ==
  [][\A c \in Conns, key \in ListKeys, n \in 1..MaxPush, dir \in {"L", "R"} :
       (Push(c, key, n, dir) /\ IsList(key)) =>
          \A i \in 1..n :
             \/ InSeq(NewElements(n)[i], kv'[key].list)
             \/ \E tx \in EpIds : rxAlive[tx] /\ InSeq(Elem(NewElements(n)[i]), chBuf'[tx])
    ]_vars

\* C3: a live registered BLPOP waiter is handed exactly one element by a PUSH
\* that supplies elements to its key (the earliest live waiter by the first
\* such PUSH), leaves the queue at that hand-off, replies [key, element], and
\* never holds a second element.
C3_LiveWaiterServedOnce ==
  [][
      /\ \A c \in Conns, key \in ListKeys, n \in 1..MaxPush, dir \in {"L", "R"} :
          (Push(c, key, n, dir) /\ IsList(key) /\ LiveQueue(key) # <<>>) =>
             LET w == Head(LiveQueue(key))
             IN /\ Len(chBuf'[w]) = 1
                /\ \E i \in 1..n : chBuf'[w][1] = Elem(NewElements(n)[i])
                /\ ~InSeq(w, room'[key])
      /\ \A c \in Conns :
          BlpopRecv(c) => reply' = [conn |-> c,
                                    r |-> RKeyVal(loc[c].keys[1], chBuf[loc[c].ep][1])]
      /\ \A tx \in EpIds : Len(chBuf'[tx]) <= 1
    ]_vars

\* C4: a PUSH of n elements with m live waiters queued hands elements 1..min(n,m)
\* in order to the first min(n,m) live waiters in registration order and
\* inserts exactly the remaining elements into the list.
C4_FifoHandOff ==
  [][\A c \in Conns, key \in ListKeys, n \in 1..MaxPush, dir \in {"L", "R"} :
       (Push(c, key, n, dir) /\ IsList(key)) =>
          LET live == LiveQueue(key)
              h == Min(n, Len(live))
              es == NewElements(n)
          IN /\ \A i \in 1..h : chBuf'[live[i]] = <<Elem(es[i])>>
             /\ kv'[key].list = Leftovers(kv[key].list, SubSeq(es, h + 1, n), dir)
    ]_vars

\* C7: a blocking handler (BLPOP, XREAD) that returns because its timeout
\* fired replies null array and its endpoint is in no key's wait queue
\* afterwards.
C7_TimeoutPrunesOwnEndpoint ==
  [][\A c \in Conns :
       (BlpopPrune(c) \/ XreadTimeout(c)) =>
          /\ reply' = [conn |-> c, r |-> RNullArr]
          /\ \A key \in Keys : ~InSeq(loc[c].ep, room'[key])
    ]_vars

\* C8: a pop (LPOP, RPOP, immediate BLPOP) that removes the last element of a
\* list removes the key in the same step: LLEN then gives 0 and TYPE none.
KeyGone(key) ==
  /\ kv'[key].tag = "none"
  /\ LlenReply(kv', key) = RInt(0)
  /\ TypeReply(kv', key) = RSimple("none")

C8_EmptyListRemoved ==
  [][
      /\ \A c \in Conns, key \in ListKeys, given \in BOOLEAN, count \in 0..MaxCount,
           dir \in {"L", "R"} :
          (Pop(c, key, given, count, dir) /\ kv[key].tag = "list"
             /\ kv[key].list # <<>> /\ kv'[key].list = <<>>) => KeyGone(key)
      /\ \A c \in Conns, key \in ListKeys, timed \in BOOLEAN :
          (BlpopCheck(c, key, timed) /\ BlpopImmediate(key)
             /\ Len(kv[key].list) = 1) => KeyGone(key)
    ]_vars

\* C10: RPUSH/LPUSH replies (length before the call) + (elements supplied),
\* whether the elements were stored or handed to waiters.
C10_PushReplyLen ==
  [][\A c \in Conns, key \in ListKeys, n \in 1..MaxPush, dir \in {"L", "R"} :
       (Push(c, key, n, dir) /\ IsList(key)) =>
          reply' = [conn |-> c, r |-> RInt(Len(kv[key].list) + n)]
    ]_vars

\* a PUSH replied 2 although one of its elements went to a waiter
C10_Witness ==
  /\ reply.r = RInt(2)
  /\ kv["k"].tag = "list" /\ Len(kv["k"].list) = 1
  /\ \E tx \in EpIds : rxAlive[tx] /\ chBuf[tx] # <<>>

\* ---------------------------------------------------------------- streams
MsgId(m) == <<m[2], m[3]>>
HasEntry(r, key, id) ==
  \E i \in 1..Len(r.streams) :
     r.streams[i].key = key /\ InSeq(id, r.streams[i].entries)

\* C5: a BLOCK 0 reader never stays registered with no wake-up pending while
\* an entry greater than its snapshotted id is in the stream (the XADD that
\* completed after the snapshot makes it return that entry).
C5_NoReaderStuck ==
  \A c \in Conns :
    (pc[c] = "xread_wait" /\ loc[c].block = "zero" /\ chBuf[loc[c].ep] = <<>>)
      => PerformXread(kv, loc[c].keys, loc[c].ids) = <<>>

\* a step that appends an entry to the stream at key (a successful XADD)
Appended(key) ==
  /\ kv'[key].tag = "stream"
  /\ Len(kv'[key].stream) = Len(kv[key].stream) + 1

\* a successful XADD signals every live waiter queued on the key and empties
\* the key's wait queue
XaddWakesAll ==
  \A key \in StreamKeys :
     Appended(key) =>
        /\ room'[key] = <<>>
        /\ \A i \in 1..Len(room[key]) :
              rxAlive[room[key][i]] => chBuf'[room[key][i]] # <<>>

\* reader c was woken by a message and returns in this step
WokenReturns(c) ==
  /\ pc[c] = "xread_wait" /\ pc'[c] = "idle"
  /\ chBuf[loc[c].ep] # <<>>

\* C6 as stated: every reader registered before a successful XADD is signalled
\* by it, the queue is left empty, and each reader woken returns the new entry.
C6_WokenReaderReturnsEntry ==
  [][/\ XaddWakesAll
     /\ \A c \in Conns :
          WokenReturns(c) =>
             \E i \in 1..Len(loc[c].keys) :
                HasEntry(reply'.r, loc[c].keys[i], MsgId(chBuf[loc[c].ep][1]))
    ]_vars

\* C6 amended: every reader registered before a successful XADD is signalled
\* by it and the queue is left empty; a reader woken returns the new entry
\* exactly when the entry's id is greater than the id the reader snapshotted
\* for that key.
C6_WokenReaderReturnsNewer ==
  [][/\ XaddWakesAll
     /\ \A c \in Conns :
          WokenReturns(c) =>
             LET id == MsgId(chBuf[loc[c].ep][1])
             IN \A i \in 1..Len(loc[c].keys) :
                   InSeq(id, kv[loc[c].keys[i]].stream) =>
                      (HasEntry(reply'.r, loc[c].keys[i], id) <=> IdGT(id, loc[c].ids[i]))
    ]_vars

\* two readers blocked on the key were both signalled by one XADD and the new
\* entry is greater than what each of them snapshotted
C6_Witness ==
  \E c1, c2 \in Conns :
     /\ c1 # c2
     /\ \A c \in {c1, c2} :
          /\ pc[c] = "xread_wait"
          /\ chBuf[loc[c].ep] # <<>>
          /\ PerformXread(kv, loc[c].keys, loc[c].ids) # <<>>
     /\ chBuf[loc[c1].ep] = chBuf[loc[c2].ep]

\* C9: every stream is strictly ascending by id, compared as the pair (ms, seq).
C9_StreamsAscending ==
  \A key \in Keys :
     \A i, j \in 1..Len(kv[key].stream) :
        i < j => /\ kv[key].stream[i][1] <= kv[key].stream[j][1]
                 /\ kv[key].stream[i][1] = kv[key].stream[j][1]
                      => kv[key].stream[i][2] < kv[key].stream[j][2]

\* a stream holding entries of two different ms parts and two of the same
C9_Witness ==
  \E key \in Keys :
     /\ Len(kv[key].stream) >= 3
     /\ kv[key].stream[1][1] # kv[key].stream[3][1]

\* ------------------------------------------------------------ XREAD with $
InXread(c) == pc[c] \in {"xread_first", "xread_reg", "xread_wait"}
IsPrefix(s, t) == Len(s) <= Len(t) /\ SubSeq(t, 1, Len(s)) = s

\* the entries the reply gives for key (none when the key is omitted)
ReplyEntries(r, key) ==
  IF \E i \in 1..Len(r.streams) : r.streams[i].key = key
  THEN (CHOOSE e \in {r.streams[i] : i \in 1..Len(r.streams)} : e.key = key).entries
  ELSE <<>>

\* C11: `$` for key K is resolved once, when the XREAD is issued, to the last
\* id of K's stream at that moment (0-0 if missing or empty), so that every
\* entry existing then is at or below the resolved id; the resolved ids stay
\* as they are until the XREAD replies; streams only grow by appending; and
\* the reply holds exactly the entries appended after the resolution, in
\* order: none that existed before, all that were added since.
C11_DollarResolvedOnce ==
  [][
      /\ \A c \in Conns :
           (pc[c] = "idle" /\ pc'[c] = "xread_first") =>
           \A a \in XreadArgs, block \in {"none", "zero", "timed"} :
           XreadStart(c, a.keys, a.ids, block) =>
              \A i \in 1..Len(a.keys) :
                 a.ids[i] = Dollar =>
                    LET st == kv[a.keys[i]].stream
                    IN /\ loc'[c].ids[i] = IF st = <<>> THEN <<0, 0>> ELSE st[Len(st)]
                       /\ \A j \in 1..Len(st) : ~IdGT(st[j], loc'[c].ids[i])
      /\ \A c \in Conns : (InXread(c) /\ InXread(c)') => loc'[c].ids = loc[c].ids
      /\ \A key \in StreamKeys : IsPrefix(kv[key].stream, kv'[key].stream)
      /\ \A c \in Conns :
           (InXread(c) /\ pc'[c] = "idle") =>
              \A i \in 1..Len(loc[c].keys) :
                 LET st == kv[loc[c].keys[i]].stream
                     old == Cardinality({j \in 1..Len(st) : ~IdGT(st[j], loc[c].ids[i])})
                 IN ReplyEntries(reply'.r, loc[c].keys[i]) = SubSeq(st, old + 1, Len(st))
    ]_vars

\* a reader that resolved `$` to the then-last entry is blocked, has been
\* woken, and an entry added since is in the stream
C11_Witness ==
  \E c \in Conns :
     /\ pc[c] = "xread_wait" /\ chBuf[loc[c].ep] # <<>>
     /\ Len(kv["s"].stream) >= 2
     /\ loc[c].ids[1] = kv["s"].stream[Len(kv["s"].stream) - 1]

\* ------------------------------------------------------- keyspace claims
KsKeys == {"k"}
Expired(key) == kv[key].tag # "none" /\ IsExpired(kv[key])
Absent(value) == value = NoValue

\* C16: the first operation of any kind on a key whose expiry instant has
\* passed deletes the record and behaves as if the key were absent: GET null
\* bulk, TYPE none and LLEN 0 with the key removed, INCR stores 1 and replies
\* :1, RPUSH/LPUSH creates a new list, XADD a new stream.
C16_LazyExpiryEverywhere ==
  [][\A c \in Conns, key \in KsKeys :
       Expired(key) =>
          /\ Get(c, key) => reply'.r = RNullBulk /\ Absent(kv'[key])
          /\ Type(c, key) => reply'.r = RSimple("none") /\ Absent(kv'[key])
          /\ Llen(c, key) => reply'.r = RInt(0) /\ Absent(kv'[key])
          /\ (Incr(c, key) /\ pc'[c] = "idle") =>
                /\ reply'.r = RInt(1)
                /\ kv'[key] = StringValue(NumStr(1), NoExpiry)
          /\ \A n \in 1..MaxPush, dir \in {"L", "R"} :
                Push(c, key, n, dir) =>
                   /\ reply'.r = RInt(n)
                   /\ kv'[key].tag = "list" /\ Len(kv'[key].list) = n
          /\ \A spec \in KsIdSpecs, now \in ClockVals :
                Xadd(c, key, spec, now) =>
                   kv'[key].tag = "stream" /\ Len(kv'[key].stream) = 1
    ]_vars

\* the handler failed on the payload variant: Err(WRONGTYPE ...) or the
\* WRONGTYPE error reply
WrongTypeFailure(r) ==
  r \in {RNothing, RErr("WRONGTYPE Operation against a key not holding a string")}

\* a command (SET aside) that finds a record of another variant fails and
\* leaves the record as it was
WrongTypeLeavesRecord ==
  \A c \in Conns, key \in KsKeys :
     (pc[c] = "idle" /\ reply'.conn = c) =>
     /\ kv[key].tag \in {"list", "stream"} =>
          /\ Incr(c, key) => kv' = kv /\ WrongTypeFailure(reply'.r)
          /\ Get(c, key) => kv' = kv /\ WrongTypeFailure(reply'.r)
     /\ kv[key].tag \in {"string", "stream"} =>
          /\ Llen(c, key) => kv' = kv /\ WrongTypeFailure(reply'.r)
          /\ \A n \in 1..MaxPush, dir \in {"L", "R"} :
                Push(c, key, n, dir) => kv' = kv /\ WrongTypeFailure(reply'.r)
          /\ \A given \in BOOLEAN, count \in 0..MaxCount, dir \in {"L", "R"} :
                Pop(c, key, given, count, dir) =>
                   kv' = kv /\ WrongTypeFailure(reply'.r)
     /\ kv[key].tag \in {"string", "list"} =>
          \A spec \in KsIdSpecs, now \in ClockVals :
             Xadd(c, key, spec, now) => kv' = kv /\ WrongTypeFailure(reply'.r)

VariantChanged(key) ==
  kv[key].tag # "none" /\ kv'[key].tag # "none" /\ kv'[key].tag # kv[key].tag

C18_IncrAtomic ==
  [][\A c \in Conns, key \in KsKeys :
       (Incr(c, key) /\ pc'[c] = "idle") =>
          LET v == IF kv[key].tag = "none" THEN 0 ELSE kv[key].str[2]
          IN (\/ kv[key].tag = "none"
              \/ kv[key].tag = "string" /\ ParsesI64(kv[key].str) /\ v < I64Max)
               => /\ reply' = [conn |-> c, r |-> RInt(v + 1)]
                  /\ kv'[key].tag = "string"
                  /\ kv'[key].str = NumStr(v + 1)
    ]_vars

\* three INCRs on the missing key have replied 1, 2, 3
C18_Witness ==
  /\ reply.r = RInt(I64Max)
  /\ kv["k"].tag = "string" /\ kv["k"].str = NumStr(I64Max)

NoDup(s) == \A i, j \in 1..Len(s) : i # j => s[i] # s[j]

\* C19: in any interleaving of RPUSH, LPUSH and LPOP on one key each command
\* acts in one step on the list the previous command left: a push of n
\* elements puts them all at its end of the list and replies the new
\* length; an LPOP/RPOP returns the elements it removes from its end and no
\* others, and removes the key when it takes the last one; no element is in
\* the list twice.
C19_ListCommandsAtomic ==
  [][\A c \in Conns, key \in KsKeys :
       (pc[c] = "idle" /\ reply'.conn = c /\ kv[key].tag \in {"none", "list"}) =>
       /\ \A n \in 1..MaxPush, dir \in {"L", "R"} :
             Push(c, key, n, dir) =>
                LET old == kv[key].list
                    es == NewElements(n)
                IN /\ kv'[key].tag = "list"
                   /\ kv'[key].list = IF dir = "R" THEN old \o es
                                       ELSE Reverse(es) \o old
                   /\ reply' = [conn |-> c, r |-> RInt(Len(old) + n)]
                   /\ NoDup(kv'[key].list)
       /\ (kv[key].tag = "list" /\ kv[key].list # <<>>) =>
          \A given \in BOOLEAN, count \in 1..MaxCount, dir \in {"L", "R"} :
             Pop(c, key, given, count, dir) =>
                LET old == kv[key].list
                    m == Min(IF given THEN count ELSE 1, Len(old))
                    taken == IF dir = "L" THEN SubSeq(old, 1, m)
                             ELSE Reverse(SubSeq(old, Len(old) - m + 1, Len(old)))
                    left == IF dir = "L" THEN SubSeq(old, m + 1, Len(old))
                            ELSE SubSeq(old, 1, Len(old) - m)
                IN /\ reply'.conn = c
                   /\ reply'.r.vals = ElemSeq(taken)
                   /\ kv'[key].list = left
                   /\ left = <<>> => Absent(kv'[key])
                   /\ \A i \in 1..m : ~InSeq(taken[i], kv'[key].list)
    ]_vars

\* all elements supplied have been pushed and popped again, the last pop
\* took two at once, and the key is gone
C19_Witness ==
  /\ nextElem = MaxElem + 1
  /\ reply.r.t = "arr" /\ Len(reply.r.vals) = 2
  /\ kv["k"].tag = "none"

\* ------------------------------------------------------- XADD rejections
XaddZeroErr == RErr("ERR The ID specified in XADD must be greater than 0-0")
XaddTopErr ==
  RErr("ERR The ID specified in XADD is equal or smaller than the target stream top item")

\* the step appends nothing and wakes nobody
NothingAddedNobodyWoken(key) ==
  /\ kv'[key].stream = kv[key].stream
  /\ room' = room
  /\ chBuf' = chBuf

\* C20: an XADD whose resolved id is (0,0) is answered with the
\* greater-than-0-0 error; one whose resolved id is not strictly greater
\* than the stream's last id with the equal-or-smaller error; in both cases
\* no entry is appended and no waiter is woken.  Stated per completed step
\* of a connection: the step is not an XADD of either kind unless it is
\* that rejection.
C20_XaddRejects ==
  [][\A c \in Conns :
       (pc[c] = "idle" /\ reply'.conn = c /\ pc'[c] = "idle") =>
       \A key \in StreamKeys, spec \in IdSpecs, now \in ClockVals :
          LET st == kv[key].stream
              id == ResolveId(st, spec, now)
          IN /\ (id = <<0, 0>>
                   /\ ~(reply'.r = XaddZeroErr /\ NothingAddedNobodyWoken(key)))
                  => ~Xadd(c, key, spec, now)
             /\ (id # <<0, 0>> /\ ~IdGT(id, LastId(st))
                   /\ ~(reply'.r = XaddTopErr /\ NothingAddedNobodyWoken(key)))
                  => ~Xadd(c, key, spec, now)
    ]_vars

\* an XADD was refused for its id while a reader stays blocked, unsignalled,
\* on the stream
C20_Witness ==
  /\ reply.r = XaddTopErr
  /\ kv["s"].stream # <<>>
  /\ \E c \in Conns :
        pc[c] = "xread_wait" /\ chBuf[loc[c].ep] = <<>> /\ InSeq(loc[c].ep, room["s"])

\* ----------------------------------------------------- transaction claims
Active(c) == command_queue[c].some
\* the step is a step of connection c
OwnStep(c) ==
  \/ reply'.conn = c
  \/ pc'[c] # pc[c]
  \/ command_queue'[c] # command_queue[c]
  \/ exec'[c] # exec[c]
\* a command of an EXEC of c returns in this step
ExecCommandReturns(c) ==
  /\ exec[c].on /\ pc'[c] = "idle"
  /\ exec'[c] # exec[c]
\* the response this step appended for c
LastResponse(c) ==
  IF exec'[c].on THEN exec'[c].responses[Len(exec'[c].responses)]
  ELSE reply'.r.parts[Len(reply'.r.parts)]

\* EXEC takes the queue, runs the queued commands one per step from the
\* head, appends each reply at the end of the responses, and after the last
\* one replies the array of all of them; the connection is inactive from the
\* moment EXEC is received and a further EXEC is refused
ExecRunsQueueInOrder ==
  \A c \in Conns :
     /\ (Active(c) /\ command_queue[c].q # <<>> /\ OwnStep(c)
           /\ ParseResp(c, Cmd("EXEC"))) =>
           /\ command_queue'[c] = None
           /\ exec'[c] = [on |-> TRUE, queue |-> command_queue[c].q, responses |-> <<>>]
           /\ kv' = kv /\ reply' = NoReply
     /\ (~Active(c) /\ OwnStep(c) /\ ParseResp(c, Cmd("EXEC"))) =>
           reply' = [conn |-> c, r |-> RErr("ERR EXEC without MULTI")]
     /\ exec[c].on => ~Active(c) /\ exec[c].queue # <<>>
     /\ ExecCommandReturns(c) =>
           /\ LET done == IF exec'[c].on THEN exec'[c].responses ELSE reply'.r.parts
              IN /\ Len(done) = Len(exec[c].responses) + 1
                 /\ SubSeq(done, 1, Len(exec[c].responses)) = exec[c].responses
           /\ IF Len(exec[c].queue) > 1
              THEN exec'[c].on /\ exec'[c].queue = Tail(exec[c].queue)
                   /\ reply' = NoReply
              ELSE ~exec'[c].on /\ reply'.conn = c /\ reply'.r.t = "raw"
                   /\ reply'.r.n = Len(reply'.r.parts)
                   /\ ~Active(c)'
     \* the reply appended is the reply of the head command on the keyspace
     \* as it is when the command runs
     /\ (ExecCommandReturns(c) /\ pc[c] = "idle") =>
           LET parts == Head(exec[c].queue)
               v == kv[parts.key]
           IN CASE parts.name = "INCR" /\ v.tag = "none" ->
                     LastResponse(c) = RInt(1) /\ kv'[parts.key].str = NumStr(1)
                [] parts.name = "INCR" /\ v.tag = "string" /\ ParsesI64(v.str)
                     /\ v.str[2] < I64Max ->
                     /\ LastResponse(c) = RInt(v.str[2] + 1)
                     /\ kv'[parts.key].str = NumStr(v.str[2] + 1)
                [] parts.name = "LPOP" /\ v.tag = "list" /\ v.list # <<>> ->
                     /\ LastResponse(c) = RBulk(Elem(Head(v.list)))
                     /\ kv'[parts.key].list = Tail(v.list)
                [] parts.name = "LPOP" /\ v.tag = "none" ->
                     LastResponse(c) = RNullBulk /\ kv' = kv
                [] parts.name = "RPUSH" /\ v.tag \in {"none", "list"}
                     /\ room[parts.key] = <<>> ->
                     /\ LastResponse(c) = RInt(Len(v.list) + 1)
                     /\ kv'[parts.key].list = Append(v.list, nextElem)
                [] OTHER -> TRUE

\* between two queued commands of a running EXEC no other connection's
\* command changes the keyspace
ExecIsolated ==
  \A c \in Conns :
     (exec[c].on /\ exec[c].responses # <<>> /\ exec'[c] = exec[c]
        /\ pc[c] = "idle" /\ pc'[c] = "idle") => kv' = kv

C13_NestedMultiRejected ==
  [][\A c \in Conns :
       (Active(c) /\ OwnStep(c) /\ ParseResp(c, Cmd("MULTI"))) =>
          /\ reply' = [conn |-> c, r |-> RErr("ERR MULTI calls can not be nested")]
          /\ command_queue' = command_queue
    ]_vars

\* C14: while a connection's transaction is active every command other than
\* EXEC and DISCARD, blocking ones included, is appended to the end of the
\* connection's queue and answered +QUEUED, and the step leaves the keyspace,
\* the wait registry and its channels as they were.
C14_ActiveQueuesCommand ==
  [][\A c \in Conns, parts \in TxCmds :
       (Active(c) /\ OwnStep(c) /\ parts.name \notin {"EXEC", "DISCARD"}
          /\ ParseResp(c, parts)) =>
          /\ command_queue'[c] = Some(Append(command_queue[c].q, parts))
          /\ reply' = [conn |-> c, r |-> RSimple("QUEUED")]
          /\ kv' = kv /\ room' = room /\ chBuf' = chBuf /\ rxAlive' = rxAlive
          /\ pc' = pc /\ exec' = exec
    ]_vars

\* a BLPOP was queued behind an RPUSH while the list is empty
C14_Witness ==
  /\ command_queue["c1"] = Some(<<Cmd("RPUSH"), Cmd("BLPOP")>>)
  /\ reply = [conn |-> "c1", r |-> RSimple("QUEUED")]
  /\ kv["k"].tag = "none"

Completes(c) == pc[c] = "idle" /\ reply'.conn = c /\ pc'[c] = "idle"
\* the step of c appended exactly id to the stream and replied it
Added(c, key, id) ==
  /\ kv'[key].stream = Append(kv[key].stream, id)
  /\ reply' = [conn |-> c, r |-> RBulk(IdMsg(id))]

C22_StarAutoSeq ==
  [][\A c \in Conns :
       Completes(c) =>
       \A key \in StreamKeys, spec \in {s \in IdSpecs : s.form \in {"star", "starstar"}},
          now \in ClockVals :
          Xadd(c, key, spec, now) =>
             LET st == kv[key].stream
                 last == LastId(st)
             IN (st # <<>> /\ now = last[1] /\ last[2] < U64Max) =>
                   Added(c, key, <<now, last[2] + 1>>)
    ]_vars

\* ------------------------------------------------------------------ LRANGE
\* the reference slice: negative indices count from the end, start at or
\* past the length gives nothing, end is clamped to the last position, start
\* past end gives nothing, else the positions start..end (0-based, inclusive)
RefSlice(list, start, end) ==
  LET len == Len(list)
      s == IF start < 0 THEN len + start ELSE start
      e == IF end < 0 THEN len + end ELSE end
      e1 == Min(e, len - 1)
  IN IF s >= len THEN <<>>
     ELSE IF s > e1 THEN <<>>
     ELSE SubSeq(list, Max(s, 0) + 1, e1 + 1)

\* C27: LRANGE key start end replies the reference slice of the list for
\* every pair of signed indices, and the empty array for a missing key.
C27_LrangeReference ==
  [][\A c \in Conns, start \in IndexVals, end \in IndexVals :
       Lrange(c, "k", start, end) =>
          reply' = [conn |-> c,
                    r |-> IF kv["k"].tag = "none" THEN RArr(<<>>)
                          ELSE RArr(ElemSeq(RefSlice(kv["k"].list, start, end)))]
    ]_vars

\* -------------------------------------------------------- wrong-type replies
\* error frames that start with -WRONGTYPE
WrongTypeTexts ==
  {"WRONGTYPE Operation against a key holding the wrong kind of value",
   "WRONGTYPE Operation against a key not holding a string",
   "WRONGTYPE Operation against a key not holding a list",
   "WRONGTYPE Operation against a key that is not a list",
   "WRONGTYPE Operation against a key that is not a stream",
   "WRONGTYPE ..."}
\* the step wrote a -WRONGTYPE frame to c and left the keyspace as it was
WrongTypeFrame(c) ==
  /\ reply'.conn = c
  /\ reply'.r.t = "err" /\ reply'.r.key \in WrongTypeTexts
  /\ kv' = kv

\* C23: a command applied to a key holding another payload variant (GET,
\* INCR on a list or stream; RPUSH, LPUSH, LLEN, LRANGE, LPOP on a string or
\* stream; XADD, XRANGE on a string or list) writes an error frame starting
\* with -WRONGTYPE and leaves the record unchanged.
C23_WrongTypeFrame ==
  [][\A c \in Conns, key \in KsKeys :
       /\ (Incr(c, key) /\ kv[key].tag \in {"list", "stream"}) => WrongTypeFrame(c)
       /\ (Get(c, key) /\ kv[key].tag \in {"list", "stream"}) => WrongTypeFrame(c)
       /\ (Llen(c, key) /\ kv[key].tag \in {"string", "stream"}) => WrongTypeFrame(c)
       /\ \A ix \in KsIndexPairs :
             (Lrange(c, key, ix[1], ix[2]) /\ kv[key].tag \in {"string", "stream"}) =>
                WrongTypeFrame(c)
       /\ \A n \in 1..MaxPush, dir \in {"L", "R"} :
             (Push(c, key, n, dir) /\ kv[key].tag \in {"string", "stream"}) =>
                WrongTypeFrame(c)
       /\ \A given \in BOOLEAN, count \in 0..MaxCount :
             (Pop(c, key, given, count, "L") /\ kv[key].tag \in {"string", "stream"}) =>
                WrongTypeFrame(c)
       /\ \A spec \in KsIdSpecs, now \in ClockVals :
             (Xadd(c, key, spec, now) /\ kv[key].tag \in {"string", "list"}) =>
                WrongTypeFrame(c)
       /\ \A b \in KsIdRanges :
             (Xrange(c, key, b[1], b[2]) /\ kv[key].tag \in {"string", "list"}) =>
                WrongTypeFrame(c)
    ]_vars

\* ------------------------------------------------------------------ panics
\* C24: no handler panics on any argument vector (LPOP/RPOP with count 0 on
\* a non-empty list included), so the keyspace mutex is never poisoned and
\* no connection task ends in a panic.
C24_NoHandlerPanics ==
  /\ ~poisoned
  /\ \A c \in Conns : pc[c] # "dead"

\* ------------------------------------------------------- non-blocking XREAD
Ascending(entries) ==
  \A a, b \in 1..Len(entries) : a < b => IdGT(entries[b], entries[a])
\* entries are exactly the entries of the stream at key above id, ascending
ExactlyAbove(entries, key, id) ==
  /\ \A e \in {kv[key].stream[j] : j \in 1..Len(kv[key].stream)} :
        IdGT(e, id) <=> InSeq(e, entries)
  /\ \A j \in 1..Len(entries) : InSeq(entries[j], kv[key].stream)
  /\ Ascending(entries)
\* the positions of the request that have an entry above their id
Hits(keys, ids) ==
  {i \in 1..Len(keys) :
     \E j \in 1..Len(kv[keys[i]].stream) : IdGT(kv[keys[i]].stream[j], ids[i])}

\* C25: XREAD without BLOCK returns, for each requested (key, id) pair in
\* request order, exactly the entries of that stream with an id strictly
\* greater than id, ascending; keys without such an entry are omitted; when
\* no key has one (missing keys included) the reply is the null array.  An
\* id other than `$` is used as it was given.
C25_XreadReturnsNewer ==
  [][\A c \in Conns :
       /\ (pc[c] = "idle" /\ pc'[c] = "xread_first") =>
             \A a \in XreadRequests :
                XreadStart(c, a.keys, a.ids, "none") =>
                   \A i \in 1..Len(a.ids) :
                      a.ids[i] # Dollar => loc'[c].ids[i] = a.ids[i]
       /\ (pc[c] = "xread_first" /\ loc[c].block = "none" /\ XreadFirst(c)) =>
             LET keys == loc[c].keys
                 ids == loc[c].ids
                 hits == Hits(keys, ids)
                 r == reply'.r
             IN /\ reply'.conn = c
                /\ hits = {} => r = RNullArr
                /\ hits # {} =>
                     /\ r.t = "xread" /\ Len(r.streams) = Cardinality(hits)
                     /\ \A i \in hits :
                           LET pos == Cardinality({h \in hits : h <= i})
                           IN /\ r.streams[pos].key = keys[i]
                              /\ ExactlyAbove(r.streams[pos].entries, keys[i], ids[i])
    ]_vars

\* XREAD STREAMS k s 1-0 0-0 found nothing above 1-0 in k and two entries in
\* s: the reply lists s only, with both entries in order
C25_Witness ==
  /\ kv["k"].stream = <<<<0, 1>>, <<1, 0>>>>
  /\ reply.r = RStreams(<<[key |-> "s", entries |-> <<<<0, 1>>, <<1, 1>>>>]>>)

\* ------------------------------------------------------------------ expiry
\* the clock has passed the expiry instant of the record
Passed(value) == value.exp # NoExpiry /\ clock > value.exp

\* C26: a key written by SET with EX/PX is returned by GET and reported as
\* string by TYPE as long as the clock has not passed its expiry instant;
\* the first GET or TYPE after that instant replies null bulk / none and
\* removes the key; a key set without expiry never expires.
C26_ExpiryOnGetAndType ==
  [][\A c \in Conns, key \in KsKeys :
       Completes(c) =>
          /\ \A v \in SetVals, ttl \in TtlVals :
                Set(c, key, v, ttl) =>
                   /\ kv'[key].tag = "string" /\ kv'[key].str = v
                   /\ kv'[key].exp = IF ttl = NoExpiry THEN NoExpiry ELSE clock + ttl
          /\ (kv[key].tag = "string" /\ Get(c, key)) =>
                IF Passed(kv[key])
                THEN reply'.r = RNullBulk /\ kv'[key] = NoValue
                ELSE reply'.r = RBulk(kv[key].str) /\ kv' = kv
          /\ (kv[key].tag = "string" /\ Type(c, key)) =>
                IF Passed(kv[key])
                THEN reply'.r = RSimple("none") /\ kv'[key] = NoValue
                ELSE reply'.r = RSimple("string") /\ kv' = kv
    ]_vars

\* GET returned the value of a key at the very instant of its expiry
C26_Witness ==
  /\ kv["k"].tag = "string" /\ kv["k"].exp # NoExpiry
  /\ clock > 0 /\ clock = kv["k"].exp
  /\ reply.r = RBulk(kv["k"].str)

\* -------------------------------------------------------------- pop replies
\* the elements a pop of m elements removes, in pop order
Popped(list, m, dir) ==
  IF dir = "L" THEN SubSeq(list, 1, m)
  ELSE Reverse(SubSeq(list, Len(list) - m + 1, Len(list)))

\* C28: LPOP/RPOP without a count on a non-empty list replies the removed
\* element as a bulk string; with a count N it replies a bulk array of the
\* min(N, length) removed elements in pop order; on a missing key or an
\* empty list it replies null bulk.
C28_PopReplies ==
  [][\A c \in Conns, key \in ListKeys, given \in BOOLEAN, count \in 1..MaxCount,
        dir \in {"L", "R"} :
       (Completes(c) /\ Pop(c, key, given, count, dir)) =>
          CASE kv[key].tag = "none" \/ (kv[key].tag = "list" /\ kv[key].list = <<>>) ->
                 reply'.r = RNullBulk
            [] kv[key].tag = "list" /\ kv[key].list # <<>> /\ ~given ->
                 reply'.r = RBulk(Elem(Popped(kv[key].list, 1, dir)[1]))
            [] kv[key].tag = "list" /\ kv[key].list # <<>> /\ given ->
                 reply'.r = RArr(ElemSeq(Popped(kv[key].list,
                                                 Min(count, Len(kv[key].list)), dir)))
            [] OTHER -> TRUE
    ]_vars

\* --------------------------------------------------------- read-only commands
\* what GET and TYPE reply in a keyspace at the current instant
GetReplyIn(store, key) ==
  CASE store[key].tag = "none" -> RNullBulk
    [] store[key].tag # "none" /\ Passed(store[key]) -> RNullBulk
    [] store[key].tag = "string" /\ ~Passed(store[key]) -> RBulk(store[key].str)
    [] OTHER -> RNothing
TypeReplyIn(store, key) ==
  IF store[key].tag = "none" \/ Passed(store[key]) THEN RSimple("none")
  ELSE RSimple(store[key].tag)

\* the wait registry and its channels are as they were
RegistryUnchanged == room' = room /\ chBuf' = chBuf /\ rxAlive' = rxAlive
\* the keyspace is as it was, or (lazy) the expired record at key is gone
SameOrExpired(key, lazy) ==
  IF lazy /\ kv[key].tag # "none" /\ Passed(kv[key])
  THEN kv' = [kv EXCEPT ![key] = NoValue]
  ELSE kv' = kv

\* the read-only commands: none changes the wait registry; the keyspace is
\* left as it was (GET and TYPE: up to `lazy` removal of an expired record);
\* the same command on the state it leaves gives the same reply
ReadOnly(lazy) ==
  \A c \in Conns, key \in KsKeys :
     /\ Completes(c) =>
          /\ Llen(c, key) =>
                /\ kv' = kv /\ RegistryUnchanged
                /\ reply'.r = LlenReply(kv', key)
          /\ \A ix \in KsIndexPairs :
                Lrange(c, key, ix[1], ix[2]) =>
                   /\ kv' = kv /\ RegistryUnchanged
                   /\ reply'.r = LrangeReply(kv', key, ix[1], ix[2])
          /\ \A b \in KsIdRanges :
                Xrange(c, key, b[1], b[2]) =>
                   /\ kv' = kv /\ RegistryUnchanged
                   /\ reply'.r = XrangeReply(kv', key, b[1], b[2])
          /\ Get(c, key) =>
                /\ SameOrExpired(key, lazy) /\ RegistryUnchanged
                /\ reply'.r = GetReplyIn(kv', key)
          /\ Type(c, key) =>
                /\ SameOrExpired(key, lazy) /\ RegistryUnchanged
                /\ reply'.r = TypeReplyIn(kv', key)
     /\ (pc[c] = "idle" /\ pc'[c] = "xread_first") =>
          \A a \in KsXreads :
             XreadStart(c, a.keys, a.ids, "none") => kv' = kv /\ RegistryUnchanged
     /\ (pc[c] = "xread_first" /\ loc[c].block = "none" /\ XreadFirst(c)) =>
          /\ kv' = kv /\ RegistryUnchanged
          /\ reply'.r = XreadReply(PerformXread(kv', loc[c].keys,
                              EffectiveIds(kv', loc[c].keys, loc[c].ids)))

\* C29 as stated: TYPE, LLEN, LRANGE, GET, XRANGE and XREAD without BLOCK
\* leave the keyspace and the wait registry exactly as they were, in any
\* state, and repeated give the same reply.
C29_ReadOnlyNoSideEffects == [][ReadOnly(FALSE)]_vars

\* C29 amended: they leave the wait registry as it was and the keyspace as
\* it was except that GET and TYPE delete the record of a key whose expiry
\* instant has passed; repeated on the state they leave, they give the same
\* reply.
C29_ReadOnlyUpToLazyExpiry == [][ReadOnly(TRUE)]_vars

\* LRANGE k 0 -1 replied the two elements of the list, which is still there
C29_Witness ==
  /\ kv["k"].tag = "list" /\ Len(kv["k"].list) = 2
  /\ reply.r = RArr(ElemSeq(kv["k"].list))

\* -------------------------------------------------------- rejected commands
\* C30: on a connection with no active transaction, an unknown command and
\* a command whose handler returns an internal error (too few arguments,
\* LRANGE index that is not a number, unknown SET expiry flag) write no
\* bytes to the client and leave the keyspace, the wait registry and the
\* connection's transaction state unchanged.
C30_InternalErrorSilent ==
  [][\A c \in Conns :
       (~Active(c) /\ OwnStep(c)) =>
       \A parts \in ErrCmds :
          ParseResp(c, parts) =>
             /\ reply' = [conn |-> c, r |-> RNothing]
             /\ kv' = kv
             /\ room' = room /\ chBuf' = chBuf /\ rxAlive' = rxAlive
             /\ command_queue' = command_queue /\ exec' = exec
             /\ pc' = pc
    ]_vars

\* a rejected command of c1 was answered with nothing while c1 has no
\* transaction, a list is stored and c2 waits in BLPOP
C30_Witness ==
  /\ reply = [conn |-> "c1", r |-> RNothing]
  /\ pc["c1"] = "idle" /\ ~command_queue["c1"].some /\ ~exec["c1"].on
  /\ kv["k"].tag = "list" /\ kv["k"].list # <<>>
  /\ pc["c2"] = "blpop_wait"

\* ------------------------------------------------- rejected XADD, keyspace
\* C37: an XADD that is rejected for its id (resolved id 0-0, or id not
\* greater than the last entry) leaves the keyspace unchanged; a key that did
\* not exist before the call does not exist after it (TYPE replies none).
C37_RejectedXaddKeepsKeyspace ==
  [][\A c \in Conns :
       (Completes(c) /\ reply'.r \in {XaddZeroErr, XaddTopErr}) =>
          /\ kv' = kv
          /\ \A key \in StreamKeys :
                kv[key].tag = "none" => TypeReply(kv', key) = RSimple("none")
    ]_vars

\* ------------------------------------------------------- hand-off, keyspace
\* C38: a PUSH to an absent key whose elements are all handed to waiting
\* BLPOP consumers leaves the key absent: no empty list record exists for
\* the key and TYPE replies none.
C38_HandOffLeavesKeyAbsent ==
  [][\A c \in Conns, key \in ListKeys :
       (Completes(c) /\ kv[key].tag = "none") =>
       \A n \in 1..MaxPush, dir \in {"L", "R"} :
          (Len(LiveQueue(key)) >= n /\ Push(c, key, n, dir)) =>
             /\ kv'[key] = NoValue
             /\ TypeReply(kv', key) = RSimple("none")
    ]_vars

\* ------------------------------------------------------- SET and expiry
\* C39: SET without EX/PX on a key that has an expiry instant removes the
\* expiry together with the old value: the key then holds the new string
\* with no expiry, and GET and TYPE return it however far the clock has
\* advanced; SET with EX/PX replaces an earlier expiry by now + duration.
\* An expiry instant is set or removed by no command other than SET.
C39_SetReplacesExpiry ==
  [][\A c \in Conns, key \in KsKeys :
       Completes(c) =>
          /\ kv[key].exp # NoExpiry =>
                \A v \in SetVals, ttl \in TtlVals :
                   Set(c, key, v, ttl) =>
                      /\ reply'.r = RSimple("OK")
                      /\ kv'[key] = StringValue(v, IF ttl = NoExpiry THEN NoExpiry
                                                   ELSE clock + ttl)
          /\ (kv[key].tag = "string" /\ kv[key].exp = NoExpiry) =>
                /\ Get(c, key) => reply'.r = RBulk(kv[key].str) /\ kv' = kv
                /\ Type(c, key) => reply'.r = RSimple("string") /\ kv' = kv
          /\ (kv[key].tag = "string" /\ kv'[key].tag = "string"
                /\ kv'[key].exp # kv[key].exp) =>
                \E v \in SetVals, ttl \in TtlVals : Set(c, key, v, ttl)
    ]_vars

\* a SET without EX/PX was answered +OK after the clock had run to its end:
\* the key holds the new string and no expiry
C39_Witness ==
  /\ reply.r = RSimple("OK")
  /\ clock = MaxClock
  /\ kv["k"] = StringValue(Text(0), NoExpiry)

\* ------------------------------------------------------------ INCR overflow
\* C40: INCR never wraps around: an integer reply is exactly the value
\* stored before plus one (a missing key counting as 0), and on the largest
\* signed 64-bit integer INCR stores nothing new and replies no smaller
\* number.
C40_IncrNeverWraps ==
  [][\A c \in Conns, key \in KsKeys :
       (pc[c] = "idle" /\ reply'.conn = c /\ Incr(c, key)) =>
          LET v == IF kv[key].tag = "none" THEN 0 ELSE kv[key].str[2]
          IN /\ reply'.r.t = "int" => reply'.r.n = v + 1
             /\ IncrOverflows(kv[key]) =>
                   /\ kv' = kv
                   /\ ~(reply'.r.t = "int" /\ reply'.r.n < v)
    ]_vars

\* -------------------------------------------------------------- EXEC reply
\* the reply frames that follow the header of a raw array: a part of no
\* bytes is no frame
FrameCount(parts) == Cardinality({i \in 1..Len(parts) : parts[i] # RNothing})

\* C36: the EXEC reply is a well-formed array: the count N of its header
\* equals the number of reply frames that follow, one per queued command,
\* also when a queued command is unknown, has too few arguments or fails
\* with a wrong-type error.
C36_ExecReplyWellFormed ==
  [][\A c \in Conns :
       (reply'.conn = c /\ reply'.r.t = "raw") =>
          /\ reply'.r.n = Len(exec[c].responses) + Len(exec[c].queue)
          /\ reply'.r.n = FrameCount(reply'.r.parts)
    ]_vars

\* ------------------------------------------------- hand-off against timeout
\* C33: a BLPOP that replies null array has consumed no element: an element
\* a PUSH handed to a waiter is replied by that waiter as [K, element], also
\* when the hand-off falls between the waiter's timeout decision and its
\* return.
C33_NullReplyConsumedNothing ==
  [][\A c \in Conns :
       /\ (pc[c] = "blpop_prune" /\ BlpopPrune(c)) =>
             /\ reply' = [conn |-> c, r |-> RNullArr]
             /\ chBuf[loc[c].ep] = <<>>
       /\ (pc[c] \in {"blpop_wait", "blpop_prune"} /\ chBuf[loc[c].ep] # <<>>
             /\ pc'[c] = "idle") =>
             reply' = [conn |-> c,
                       r |-> RKeyVal(loc[c].keys[1], chBuf[loc[c].ep][1])]
    ]_vars

\* ------------------------------------------------------ BLPOP reply values
\* the text is a list element that a client has supplied
SuppliedElem(v) == v[1] = 0 /\ v[2] >= 1 /\ v[2] < nextElem

\* C32: every BLPOP reply [K, v] carries a list element of K (one that was
\* in K's list or was supplied by an RPUSH/LPUSH on K); an XADD on K never
\* completes a BLPOP blocked on K, and a stream id is never returned as a
\* popped element.
C32_BlpopRepliesListElement ==
  [][\A c \in Conns :
       /\ (pc[c] \in {"idle", "blpop_wait"} /\ reply'.conn = c
             /\ (pc[c] = "blpop_wait" \/ pc'[c] = "idle")
             /\ reply'.r.t = "arr" /\ reply'.r.key = SharedKey) =>
             SuppliedElem(reply'.r.vals[1])
       /\ (pc[c] = "blpop_wait" /\ Len(kv'[SharedKey].stream) > Len(kv[SharedKey].stream)) =>
             chBuf'[loc[c].ep] = chBuf[loc[c].ep]
    ]_vars

\* --------------------------------------------------------- XREAD BLOCK 0
\* C34: an XREAD with BLOCK 0 replies only with a non-empty result, never
\* null array, whatever wakes it (an XADD whose new id is not greater than
\* the requested id, or an RPUSH/LPUSH on the same key name).
C34_BlockZeroNeverNull ==
  [][\A c \in Conns :
       (pc[c] \in {"xread_first", "xread_wait"} /\ loc[c].block = "zero"
          /\ pc'[c] = "idle") =>
          /\ reply'.conn = c
          /\ reply'.r.t = "xread" /\ reply'.r.streams # <<>>
    ]_vars

\* --------------------------------------------------------- EXEC terminates
\* C35: EXEC always completes: once EXEC is received on an active
\* transaction the connection eventually gets the EXEC reply and is
\* inactive, whatever was queued (BLPOP with timeout 0 included) and
\* whatever the other connections do.  Runs in which a handler panics, and
\* runs that use up the elements or channels of the run, are set aside (the
\* right-hand side accepts them).
Exhausted == nextElem > MaxElem \/ ~CanBlock(MaxEp)

C35_ExecCompletes ==
  \A c \in TxConns :
     exec[c].on ~> \/ ~exec[c].on /\ ~Active(c) /\ reply.conn = c /\ reply.r.t = "raw"
                   \/ poisoned
                   \/ Exhausted

\* ------------------------------------------------------------- lock order
\* connection c waits in lock() for a mutex whose guard connection d holds
WaitsFor(c, d) == Wants(pc[c]) # "" /\ d \in Holder(Wants(pc[c]))

\* C31: handlers take the two mutexes only in the order keyspace, then wait
\* registry: no handler requests the keyspace lock while it holds the
\* wait-registry lock; no lock is held while a blocking handler is
\* suspended; each mutex has at most one holder; and no handlers (PUSH,
\* XADD, BLPOP, XREAD, timeouts) wait for each other's mutex, nor one for a
\* mutex it holds itself.
C31_LockOrderNoDeadlock ==
  /\ \A c \in Conns :
        /\ "waiting_room" \in LocksHeld(pc[c]) => Wants(pc[c]) # "kv_store"
        /\ pc[c] \in Suspended => LocksHeld(pc[c]) = {}
        /\ ~WaitsFor(c, c)
  /\ \A m \in Mutexes : Cardinality(Holder(m)) <= 1
  /\ \A c, d \in Conns : ~(WaitsFor(c, d) /\ WaitsFor(d, c))

\* a PUSH holding the keyspace lock waits for the wait-registry lock, which
\* a timed-out BLPOP holds while it prunes, and an XREAD is suspended
C31_Witness ==
  \E c, d, e \in Conns :
     /\ pc[c] = "push_kv" /\ pc[d] = "blpop_pruning" /\ pc[e] = "xread_wait"
     /\ WaitsFor(c, d)
====
